---- MODULE Spec2Model ----
(***************************************************************************)
(* Ingestion and reconciliation engine of the anime-hub worker:            *)
(*   - ContentPolicy        isAdultContent / isAnime                       *)
(*   - Deduplicator         filterLatestEpisodes                           *)
(*   - Reconciler           updateFirestore (AniList engine and the two    *)
(*                          Jikan revisions, all writing the collection    *)
(*                          'episodes')                                    *)
(* Times are milliseconds since the epoch (the value behind an ISO string  *)
(* produced by toISOString); airingAt is in seconds, as upstream sends it. *)
(***************************************************************************)
EXTENDS Integers, Sequences, FiniteSets, TLC

VARIABLES
    now,            \* the wall clock, ms
    store,          \* collection 'episodes': document id -> document data
    pc,             \* position of the scheduled run: "idle" | "loop"
    ver,            \* which script is running
    runStart,       \* clock value when the current run started
    batch,          \* db.batch(): the queued writes, in order
    handled,        \* ids the loop of updateFirestore has gone through
    cnt,            \* the counters of updateFirestore
    last,           \* what the latest loop iteration did
    prevRec,        \* per id, the latest committed reconcile of that id
    runStatus,      \* how the latest run ended
    schedules,      \* input of filterLatestEpisodes
    latestEpisodes, \* output of filterLatestEpisodes
    filterDone,
    media,          \* input of ContentPolicy
    adultCheck,     \* result of isAdultContent(media)
    animeCheck,     \* result of isAnime(media)
    policyDone,
    upstream,       \* the pages upstream serves: page number -> response
    fpc,            \* position in fetchRecentlyAiredEpisodes / fetchPage
    currentPage,
    hasNextPage,
    allSchedules,
    fetchNow,       \* Date.now() read when fetchRecentlyAiredEpisodes starts, ms
    retries,        \* fetchPage: failed attempts of the current call
    attempts,       \* requests sent by the current call of fetchPage
    pageResult,     \* what the current call of fetchPage returned
    fetchLog,       \* the requests and the delay(ms) waits of the running fetcher, in order
    mpc,            \* position in main of the AniList engine
    exitCode,       \* process.exit(code) taken before updateFirestore
    filterNow,      \* Date.now() read when filterLatestEpisodes starts, ms
    episodesList,   \* fetch.js main: what fetchLatestEpisodes returned
    sweepPc,        \* position in cleanupOldEpisodes: "idle" | "scanned" | "done"
    sweepVer,       \* which cleanup script is running
    snapshot,       \* what episodesRef.get() returned
    decisions,      \* per scanned id: shouldKeepAnime's answer and the clock it read
    sweepExit,      \* process.exit(code) of the cleanup script
    keepCount,      \* cleanupOldEpisodes: documents the forEach kept
    deleteCount,    \* cleanupOldEpisodes: documents the forEach queued for deletion
    sweepCommits,   \* batch.commit() calls issued by the cleanup script
    seenPc,         \* position in cleanup_seen.js: "idle" | "exited" | "done"
    seenFile,       \* seen_episodes.json: <<>> when it does not exist, else <<its entries>>
    raw,            \* cleanup_seen.js: the entries parsed from the file
    total,          \* cleanup_seen.js: Object.keys(raw).length
    cutoff,         \* cleanup_seen.js: now - 7 days, in ms
    removed,        \* cleanup_seen.js: entries left out of trimmed
    seenExit        \* exit code of cleanup_seen.js

reconVars == <<store, pc, ver, runStart, batch, handled, cnt, last, prevRec, runStatus>>
filterVars == <<schedules, latestEpisodes, filterDone>>
policyVars == <<media, adultCheck, animeCheck, policyDone>>
fetchVars == <<upstream, fpc, currentPage, hasNextPage, allSchedules, fetchNow,
               retries, attempts, pageResult, fetchLog>>
mainVars == <<mpc, exitCode, filterNow, episodesList>>
sweepVars == <<sweepPc, sweepVer, snapshot, decisions, sweepExit, keepCount,
              deleteCount, sweepCommits>>
seenVars == <<seenPc, seenFile, raw, total, cutoff, removed, seenExit>>
vars == <<now, reconVars, filterVars, policyVars, fetchVars, mainVars, sweepVars, seenVars>>

(***************************************************************************)
(* Bounds                                                                  *)
(***************************************************************************)
MaxEpisode == 2
MaxSchedules == 2
MaxGenres == 2
MaxTags == 2
MaxTicks == 5
MaxPages == 2
MaxPageLen == 2
MaxUpstream == 3
MaxRecords == 2
MaxDays == 9
MaxRaceTicks == 2
MaxSeen == 3

(***************************************************************************)
(* Configuration                                                           *)
(***************************************************************************)
RECENCY_DAYS == 7
MAX_RETRIES == 3
RETRY_DELAY == 2000
RATE_LIMIT_DELAY == 700
RECENCY_WINDOW_DAYS == 7
NewSeriesDays == 30
RecentUpdateDays == 2
DayMs == 24 * 60 * 60 * 1000
\* the clock when the model starts: a whole number of seconds
StartTime == 700000 * 1000

ALLOWED_FORMATS == {"TV", "TV_SHORT", "OVA", "ONA", "SPECIAL", "MOVIE"}
BLOCKED_GENRES == {"Hentai", "Ecchi"}
BLOCKED_TAGS == {"Hentai", "Ecchi", "Nudity", "Explicit Sexual Content",
                 "Sex", "Softcore", "Pornography", "BDSM",
                 "Sexual Abuse", "Rape", "Incest"}
ALLOWED_COUNTRIES == {"JP", "CN", "KR", "TW"}

SeqsUpTo(S, n) == UNION {[1..k -> S] : k \in 0..n}

(***************************************************************************)
(* ContentPolicy                                                           *)
(***************************************************************************)
\* the first element of a sequence that is in a set, as a for-of loop with
\* an early return finds it; <<>> when there is none
RECURSIVE FirstIn(_, _)
FirstIn(seq, S) ==
    IF seq = <<>> THEN <<>>
    ELSE IF Head(seq) \in S THEN <<Head(seq)>>
    ELSE FirstIn(Tail(seq), S)

isAdultContent_NoTags(m) ==
    IF m.isAdult = TRUE THEN [blocked |-> TRUE, reason |-> <<"isAdult flag">>]
    ELSE IF FirstIn(m.genres, BLOCKED_GENRES) # <<>>
         THEN [blocked |-> TRUE,
               reason |-> <<"Blocked genre">> \o FirstIn(m.genres, BLOCKED_GENRES)]
    ELSE [blocked |-> FALSE, reason |-> <<>>]

isAdultContent_TagsFirst(m) ==
    IF m.isAdult = TRUE THEN [blocked |-> TRUE, reason |-> <<"isAdult flag">>]
    ELSE IF FirstIn(m.tags, BLOCKED_TAGS) # <<>>
         THEN [blocked |-> TRUE,
               reason |-> <<"Blocked tag">> \o FirstIn(m.tags, BLOCKED_TAGS)]
    ELSE IF FirstIn(m.genres, BLOCKED_GENRES) # <<>>
         THEN [blocked |-> TRUE,
               reason |-> <<"Blocked genre">> \o FirstIn(m.genres, BLOCKED_GENRES)]
    ELSE [blocked |-> FALSE, reason |-> <<>>]

isAdultContent(m) ==
    IF m.isAdult = TRUE THEN [blocked |-> TRUE, reason |-> <<"isAdult flag">>]
    ELSE IF FirstIn(m.genres, BLOCKED_GENRES) # <<>>
         THEN [blocked |-> TRUE,
               reason |-> <<"Blocked genre">> \o FirstIn(m.genres, BLOCKED_GENRES)]
    ELSE IF FirstIn(m.tags, BLOCKED_TAGS) # <<>>
         THEN [blocked |-> TRUE,
               reason |-> <<"Blocked tag">> \o FirstIn(m.tags, BLOCKED_TAGS)]
    ELSE [blocked |-> FALSE, reason |-> <<>>]

\* countryOfOrigin "" stands for an absent (falsy) country
isAnime(m) ==
    IF m.type # "ANIME"
    THEN [allowed |-> FALSE, reason |-> <<"Not anime type", m.type>>]
    ELSE IF m.format \notin ALLOWED_FORMATS
    THEN [allowed |-> FALSE, reason |-> <<"Blocked format", m.format>>]
    ELSE IF m.countryOfOrigin # "" /\ m.countryOfOrigin \notin ALLOWED_COUNTRIES
    THEN [allowed |-> FALSE, reason |-> <<"Blocked country", m.countryOfOrigin>>]
    ELSE [allowed |-> TRUE, reason |-> <<>>]

\* the series metadata ContentPolicy looks at
GenreNames == {"Hentai", "Ecchi", "Action"}
TagNames == {"Nudity", "Incest", "Comedy"}
TypeNames == {"ANIME", "MANGA"}
FormatNames == {"TV", "MUSIC"}
CountryNames == {"", "JP", "US"}

PolicyMedia ==
    [isAdult : BOOLEAN,
     genres : SeqsUpTo(GenreNames, MaxGenres),
     tags : SeqsUpTo(TagNames, MaxTags),
     type : TypeNames,
     format : FormatNames,
     countryOfOrigin : CountryNames]

NoCheck == [none |-> TRUE]

PolicyIdle ==
    /\ media = NoCheck
    /\ adultCheck = NoCheck
    /\ animeCheck = NoCheck
    /\ policyDone = FALSE

\* filterLatestEpisodes evaluates isAdultContent first and isAnime only
\* when the entry was not blocked
EvaluatePolicy ==
    /\ ~policyDone
    /\ adultCheck' = isAdultContent(media)
    /\ animeCheck' = IF isAdultContent(media).blocked THEN NoCheck ELSE isAnime(media)
    /\ policyDone' = TRUE
    /\ UNCHANGED <<now, media, reconVars, filterVars, fetchVars, mainVars, sweepVars, seenVars>>

(***************************************************************************)
(* Deduplicator: filterLatestEpisodes                                      *)
(***************************************************************************)
NullMedia == [null |-> TRUE]

\* airingTime < cutoffDate, with cutoffDate = Date.now() / 1000 - 7 days
TooOld_Inclusive(airingTime, nowMs) ==
    airingTime * 1000 <= nowMs - RECENCY_DAYS * DayMs

TooOld(airingTime, nowMs) ==
    airingTime * 1000 < nowMs - RECENCY_DAYS * DayMs

\* existing.episode >= episode: the entry already in the map stays
KeepExisting_LastWins(existing, episode) == FALSE

KeepExisting_TieReplaces(existing, episode) == existing.episode > episode

KeepExisting(existing, episode) == existing.episode >= episode

\* animeMap: a Map, as the sequence of its [key, val] pairs in insertion order
MapHas(animeMap, key) == \E i \in DOMAIN animeMap : animeMap[i].key = key

MapGet(animeMap, key) ==
    animeMap[CHOOSE i \in DOMAIN animeMap : animeMap[i].key = key].val

MapSet_Append(animeMap, key, val) == Append(animeMap, [key |-> key, val |-> val])

MapSet(animeMap, key, val) ==
    IF MapHas(animeMap, key)
    THEN [i \in DOMAIN animeMap |->
            IF animeMap[i].key = key THEN [key |-> key, val |-> val] ELSE animeMap[i]]
    ELSE Append(animeMap, [key |-> key, val |-> val])

MapValues(animeMap) == [i \in DOMAIN animeMap |-> animeMap[i].val]

\* the validation checks and filters of one loop iteration: TRUE when the
\* iteration reaches the deduplication step
PassesFilters_AnyStatus(schedule, nowMs) ==
    /\ schedule.media # NullMedia
    /\ schedule.media.idMal # 0
    /\ ~isAdultContent(schedule.media).blocked
    /\ isAnime(schedule.media).allowed
    /\ ~TooOld(schedule.airingAt, nowMs)

PassesFilters(schedule, nowMs) ==
    /\ schedule.media # NullMedia
    /\ schedule.media.idMal # 0
    /\ ~isAdultContent(schedule.media).blocked
    /\ isAnime(schedule.media).allowed
    /\ ~TooOld(schedule.airingAt, nowMs)
    /\ schedule.media.status = "RELEASING"

\* one iteration of the for loop
FilterIteration(animeMap, schedule, nowMs) ==
    IF ~PassesFilters(schedule, nowMs) THEN animeMap
    ELSE IF /\ MapHas(animeMap, schedule.media.idMal)
            /\ KeepExisting(MapGet(animeMap, schedule.media.idMal), schedule.episode)
         THEN animeMap
    ELSE MapSet(animeMap, schedule.media.idMal,
                [media |-> schedule.media, episode |-> schedule.episode,
                 airingTime |-> schedule.airingAt, scheduleId |-> schedule.id])

RECURSIVE FilterLoop(_, _, _, _)
FilterLoop(scheds, i, animeMap, nowMs) ==
    IF i > Len(scheds) THEN animeMap
    ELSE FilterLoop(scheds, i + 1, FilterIteration(animeMap, scheds[i], nowMs), nowMs)

filterLatestEpisodes(scheds, nowMs) == MapValues(FilterLoop(scheds, 1, <<>>, nowMs))

\* upstream entries: the schedule id is unique, here the position of the entry
CutoffSec == (StartTime - RECENCY_DAYS * DayMs) \div 1000
AiringTimes == {CutoffSec - 1, CutoffSec}
StatusNames == {"RELEASING", "FINISHED"}
\* idMal 0 stands for a missing (falsy) idMal
IdMals == {0, 1, 2}

\* series metadata ContentPolicy admits, and two it rejects: a blocked genre
\* after an allowed one, and a format that is not allowed
AdmittedSample ==
    [isAdult |-> FALSE, genres |-> <<"Action">>, tags |-> <<"Comedy">>,
     type |-> "ANIME", format |-> "TV", countryOfOrigin |-> "JP"]

PolicySamples ==
    {[isAdult |-> FALSE, genres |-> <<"Action", "Ecchi">>, tags |-> <<>>,
      type |-> "ANIME", format |-> "TV", countryOfOrigin |-> "JP"],
     [isAdult |-> FALSE, genres |-> <<"Action">>, tags |-> <<>>,
      type |-> "ANIME", format |-> "MUSIC", countryOfOrigin |-> ""]}

MediaOf(p, id, st) ==
    [isAdult |-> p.isAdult, genres |-> p.genres, tags |-> p.tags, type |-> p.type,
     format |-> p.format, countryOfOrigin |-> p.countryOfOrigin,
     idMal |-> id, status |-> st]

\* media of a currently releasing, admitted series with an id
FilterMedia == {MediaOf(AdmittedSample, id, "RELEASING") : id \in IdMals \ {0}}

\* media the loop skips an entry for: media missing, idMal missing, rejected
\* by ContentPolicy, series not RELEASING
SkippedMedia ==
    {NullMedia, MediaOf(AdmittedSample, 0, "RELEASING")}
        \cup {MediaOf(p, id, "RELEASING") : p \in PolicySamples, id \in IdMals \ {0}}
        \cup {MediaOf(AdmittedSample, id, st) :
                 id \in IdMals \ {0}, st \in StatusNames \ {"RELEASING"}}

ScheduleBodies ==
    [episode : 1..MaxEpisode, airingAt : AiringTimes, media : FilterMedia \cup SkippedMedia]

\* the upstream list built from entry bodies: ids are unique
WithIds(b) ==
    [i \in DOMAIN b |-> [id |-> i, episode |-> b[i].episode,
                          airingAt |-> b[i].airingAt, media |-> b[i].media]]

FilterIdle ==
    /\ schedules = <<>>
    /\ latestEpisodes = <<>>
    /\ filterDone = FALSE

RunFilter ==
    /\ ~filterDone
    /\ latestEpisodes' = filterLatestEpisodes(schedules, now)
    /\ filterDone' = TRUE
    /\ UNCHANGED <<now, schedules, reconVars, policyVars, fetchVars, mainVars, sweepVars, seenVars>>

(***************************************************************************)
(* Persisted store: collection 'episodes'                                  *)
(***************************************************************************)
\* the series ids (idMal) the runs meet: reconciles of distinct ids read and
\* write distinct documents, so the history of one document is followed
Keys == {1}
MaxTime == StartTime + MaxTicks

\* a document is a function from field names to values; a field the
\* document does not have is not in its domain
EmptyDoc == [f \in {} |-> 0]
HasField(doc, f) == f \in DOMAIN doc
\* doc.f || dflt
FieldOr(doc, f, dflt) == IF HasField(doc, f) /\ doc[f] # 0 THEN doc[f] ELSE dflt

\* set(docRef, data, { merge: true }): fields not in data are left untouched
Merge_Replace(old, data) == data

Merge(old, data) ==
    [f \in DOMAIN old \cup DOMAIN data |-> IF f \in DOMAIN data THEN data[f] ELSE old[f]]

\* one queued write applied to the collection
ApplyWrite(st, op) ==
    [k \in DOMAIN st \cup {op.key} |->
        IF k # op.key THEN st[k]
        ELSE IF op.merge /\ k \in DOMAIN st THEN Merge(st[k], op.data)
        ELSE op.data]

\* batch.commit(): the queued writes, applied in the order they were queued
RECURSIVE ApplyBatch(_, _)
ApplyBatch(st, ops) ==
    IF ops = <<>> THEN st ELSE ApplyBatch(ApplyWrite(st, Head(ops)), Tail(ops))

(***************************************************************************)
(* Reconciler of the AniList engine                                        *)
(***************************************************************************)
\* convertToFirestoreFormat: lastUpdated and episodeAddedAt are two
\* readings of the clock, t1 first and t2 second
\* formatTimestamp: new Date(timestamp * 1000).toISOString(), seconds to the
\* millisecond value behind the ISO string
formatTimestamp(timestamp) == timestamp * 1000

convertToFirestoreFormat_StaleEpisode(data, t1, t2) ==
    [animeId |-> data.key, status |-> "Currently Airing",
     latestEpisode |-> 1,
     episodeAiredDate |-> formatTimestamp(data.airingTime),
     episodeAiredAt |-> data.airingTime,
     lastUpdated |-> t1, episodeAddedAt |-> t2, dataSource |-> "anilist"]

convertToFirestoreFormat(data, t1, t2) ==
    [animeId |-> data.key, status |-> "Currently Airing",
     latestEpisode |-> data.episode,
     episodeAiredDate |-> formatTimestamp(data.airingTime),
     episodeAiredAt |-> data.airingTime,
     lastUpdated |-> t1, episodeAddedAt |-> t2, dataSource |-> "anilist"]

\* the three branches of updateFirestore for one converted entry:
\* exists / prev are what docRef.get() returned
AniListWrite_RefreshStamps(exists, prev, animeData) ==
    IF ~exists THEN [kind |-> "new", queued |-> TRUE, data |-> animeData, merge |-> FALSE]
    ELSE IF animeData.latestEpisode > FieldOr(prev, "latestEpisode", 0)
    THEN [kind |-> "episode", queued |-> TRUE, data |-> animeData, merge |-> TRUE]
    ELSE [kind |-> "refresh", queued |-> TRUE, data |-> animeData, merge |-> TRUE]

AniListWrite_AdvanceKeeps(exists, prev, animeData) ==
    IF ~exists THEN [kind |-> "new", queued |-> TRUE, data |-> animeData, merge |-> FALSE]
    ELSE [kind |-> "refresh", queued |-> TRUE,
          data |-> [animeData EXCEPT
                      !.episodeAddedAt = FieldOr(prev, "episodeAddedAt", @)],
          merge |-> TRUE]

AniListWrite_SkipRefresh(exists, prev, animeData) ==
    IF ~exists THEN [kind |-> "new", queued |-> TRUE, data |-> animeData, merge |-> FALSE]
    ELSE IF animeData.latestEpisode > FieldOr(prev, "latestEpisode", 0)
    THEN [kind |-> "episode", queued |-> TRUE, data |-> animeData, merge |-> TRUE]
    ELSE [kind |-> "refresh", queued |-> FALSE, data |-> animeData, merge |-> TRUE]

AniListWrite(exists, prev, animeData) ==
    IF ~exists THEN [kind |-> "new", queued |-> TRUE, data |-> animeData, merge |-> FALSE]
    ELSE IF animeData.latestEpisode > FieldOr(prev, "latestEpisode", 0)
    THEN [kind |-> "episode", queued |-> TRUE, data |-> animeData, merge |-> TRUE]
    ELSE [kind |-> "refresh", queued |-> TRUE,
          data |-> [animeData EXCEPT
                      !.episodeAddedAt = FieldOr(prev, "episodeAddedAt", @)],
          merge |-> TRUE]

(***************************************************************************)
(* Reconcilers of the two Jikan revisions                                  *)
(***************************************************************************)
HoursMs == 60 * 60 * 1000

\* processEpisodeEntry: mergedData; lastUpdated is a reading of the clock
processEpisodeEntry(entry, t1) ==
    [animeId |-> entry.key, status |-> entry.status,
     latestEpisode |-> entry.episode, airedDate |-> entry.airedDate,
     lastUpdated |-> t1]

WithAddedAt(animeData, nowIso) == Merge(animeData, [episodeAddedAt |-> nowIso])

\* fetch.js: new / updated / backfill stamp episodeAddedAt, refresh leaves
\* the field out of the write; every branch writes
JikanFixedWrite(exists, prev, animeData, nowIso) ==
    IF ~exists
    THEN [kind |-> "new", queued |-> TRUE,
          data |-> WithAddedAt(animeData, nowIso), merge |-> TRUE]
    ELSE IF animeData.latestEpisode > FieldOr(prev, "latestEpisode", 0)
    THEN [kind |-> "episode", queued |-> TRUE,
          data |-> WithAddedAt(animeData, nowIso), merge |-> TRUE]
    ELSE IF FieldOr(prev, "episodeAddedAt", 0) = 0
    THEN [kind |-> "backfill", queued |-> TRUE,
          data |-> WithAddedAt(animeData, nowIso), merge |-> TRUE]
    ELSE [kind |-> "refresh", queued |-> TRUE, data |-> animeData, merge |-> TRUE]

\* new Date(toWrite.airedDate) >= new Date(Date.now() - 48h); t3 is Date.now()
AiredWithin48h(toWrite, t3) ==
    toWrite.airedDate # 0 /\ toWrite.airedDate >= t3 - 48 * HoursMs

\* the earliest revision: writes when the document is new or the episode
\* number differs, stamps episodeAddedAt when the episode number increased,
\* or, for a new or unstamped document, when airedDate is within 48 hours
JikanV1Write(exists, prev, animeData, nowIso, t3) ==
    LET prevLatest == FieldOr(prev, "latestEpisode", 0)
        newLatest == animeData.latestEpisode
    IN  IF newLatest > prevLatest
        THEN [kind |-> "episode", queued |-> TRUE,
              data |-> WithAddedAt(animeData, nowIso), merge |-> TRUE]
        ELSE IF ~exists
        THEN IF AiredWithin48h(animeData, t3)
             THEN [kind |-> "new", queued |-> TRUE,
                   data |-> WithAddedAt(animeData, nowIso), merge |-> TRUE]
             ELSE [kind |-> "new", queued |-> TRUE, data |-> animeData, merge |-> TRUE]
        ELSE IF FieldOr(prev, "episodeAddedAt", 0) = 0 /\ AiredWithin48h(animeData, t3)
        THEN [kind |-> "backfill", queued |-> TRUE,
              data |-> WithAddedAt(animeData, nowIso), merge |-> TRUE]
        ELSE [kind |-> "unchanged", queued |-> (newLatest # prevLatest),
              data |-> animeData, merge |-> TRUE]

(***************************************************************************)
(* The scheduled run: updateFirestore as a loop over the entries, one      *)
(* docRef.get() per iteration, and batch.commit() at the end               *)
(***************************************************************************)
Versions == {"anilist", "jikanFixed", "jikanV1"}
ZeroCnt == [updateCount |-> 0, newCount |-> 0, updatedEpisodeCount |-> 0,
            refreshCount |-> 0, errorCount |-> 0, skippedOldCount |-> 0]
NoRun == [commit |-> "none", exit |-> 0, by |-> "none", did |-> {}]
JikanStatuses == {"Currently Airing"}
\* aired.from as upstream reports it: series 1 started more than 48 hours
\* ago or, once upstream corrects the date, within the last 48 hours; every
\* other series started within the last 48 hours
AiredFrom(k) == IF k = 1 THEN {StartTime - 3 * DayMs, StartTime} ELSE {StartTime}

\* a reading of the clock: the clock may have moved on since the last one
Reads(t) == {u \in t..(t + 1) : u <= MaxTime}

ReconIdle ==
    /\ store = [k \in {} |-> EmptyDoc]
    /\ pc = "idle"
    /\ ver = "none"
    /\ runStart = StartTime
    /\ batch = <<>>
    /\ handled = {}
    /\ cnt = ZeroCnt
    /\ last = NoCheck
    /\ prevRec = [k \in Keys |-> NoCheck]
    /\ runStatus = NoRun

\* main: a run starts; one scheduled run executes at a time
StartRun ==
    /\ pc = "idle"
    /\ now < MaxTime
    /\ \E v \in Versions : ver' = v
    /\ now' = now + 1
    /\ runStart' = now + 1
    /\ pc' = "loop"
    /\ batch' = <<>>
    /\ handled' = {}
    /\ cnt' = ZeroCnt
    /\ last' = NoCheck
    /\ UNCHANGED <<store, prevRec, runStatus, filterVars, policyVars, fetchVars, mainVars, sweepVars, seenVars>>

\* what an iteration leaves behind: the queued write with the entry and the
\* snapshot it was decided on
QueuedOp(k, ep, exists, prev, w) ==
    [key |-> k, data |-> w.data, merge |-> w.merge, kind |-> w.kind,
     episode |-> ep, existed |-> exists, prev |-> prev]

Bump_RefreshUncounted(c, kind) ==
    [c EXCEPT !.updateCount = @ + 1,
              !.newCount = IF kind = "new" THEN @ + 1 ELSE @,
              !.updatedEpisodeCount = IF kind = "episode" THEN @ + 1 ELSE @]

Bump(c, kind) ==
    [c EXCEPT !.updateCount = @ + 1,
              !.newCount = IF kind = "new" THEN @ + 1 ELSE @,
              !.updatedEpisodeCount = IF kind = "episode" THEN @ + 1 ELSE @,
              !.refreshCount = IF kind = "refresh" THEN @ + 1 ELSE @]

\* the lists handed to updateFirestore hold one entry per id and are gone
\* through in ascending id order (writes to distinct documents commute)
NextKeys(done) == {k \in Keys : \A h \in done : h < k}

Snapshot(k) == IF k \in DOMAIN store THEN store[k] ELSE EmptyDoc

\* part_000 updateFirestore, one iteration of the for loop
AniListIteration ==
    /\ pc = "loop"
    /\ ver = "anilist"
    /\ \E k \in NextKeys(handled), ep \in 1..MaxEpisode, titleOk \in BOOLEAN,
          readOk \in BOOLEAN, t1 \in {now} :
        \E t2 \in Reads(t1) :
          LET data == [key |-> k, episode |-> ep, airingTime |-> now \div 1000]
              animeData == convertToFirestoreFormat(data, t1, t2)
              exists == k \in DOMAIN store
              w == AniListWrite(exists, Snapshot(k), animeData)
          IN  /\ handled' = handled \cup {k}
              /\ IF ~titleOk
                 THEN /\ cnt' = [cnt EXCEPT !.errorCount = @ + 1]
                      /\ last' = [key |-> k, episode |-> ep, ok |-> FALSE, queued |-> FALSE]
                      /\ UNCHANGED <<batch, now>>
                 ELSE IF ~readOk
                 THEN /\ cnt' = [cnt EXCEPT !.errorCount = @ + 1]
                      /\ last' = [key |-> k, episode |-> ep, ok |-> FALSE, queued |-> FALSE]
                      /\ now' = t2
                      /\ UNCHANGED batch
                 ELSE /\ now' = t2
                      /\ last' = [key |-> k, episode |-> ep, ok |-> TRUE, queued |-> w.queued]
                      /\ IF w.queued
                         THEN /\ batch' = Append(batch,
                                     QueuedOp(k, ep, exists, Snapshot(k), w))
                              /\ cnt' = Bump(cnt, w.kind)
                         ELSE UNCHANGED <<batch, cnt>>
    /\ UNCHANGED <<store, pc, ver, runStart, prevRec, runStatus, filterVars, policyVars, fetchVars, mainVars, sweepVars, seenVars>>

JikanEntries ==
    UNION {[key : {k}, episode : 0..MaxEpisode, status : JikanStatuses,
            airedDate : AiredFrom(k)] : k \in Keys}

\* fetch.js updateFirestore, one iteration of the for loop; processEpisodeEntry
\* returns null for an entry it skips or fails on
JikanFixedIteration ==
    /\ pc = "loop"
    /\ ver = "jikanFixed"
    /\ \E entry \in JikanEntries, processed \in BOOLEAN, readOk \in BOOLEAN,
          t1 \in {now} :
        \E nowIso \in Reads(t1) :
          LET k == entry.key
              animeData == processEpisodeEntry(entry, t1)
              exists == k \in DOMAIN store
              w == JikanFixedWrite(exists, Snapshot(k), animeData, nowIso)
          IN  /\ k \in NextKeys(handled)
              /\ handled' = handled \cup {k}
              /\ IF ~processed
                 THEN /\ cnt' = [cnt EXCEPT !.skippedOldCount = @ + 1]
                      /\ last' = [key |-> k, episode |-> entry.episode, ok |-> FALSE, queued |-> FALSE]
                      /\ now' = t1
                      /\ UNCHANGED batch
                 ELSE IF ~readOk
                 THEN /\ cnt' = [cnt EXCEPT !.errorCount = @ + 1]
                      /\ last' = [key |-> k, episode |-> entry.episode, ok |-> FALSE, queued |-> FALSE]
                      /\ now' = t1
                      /\ UNCHANGED batch
                 ELSE /\ now' = nowIso
                      /\ last' = [key |-> k, episode |-> entry.episode, ok |-> TRUE, queued |-> w.queued]
                      /\ batch' = Append(batch,
                             QueuedOp(k, entry.episode, exists, Snapshot(k), w))
                      /\ cnt' = [cnt EXCEPT !.updateCount = @ + 1]
    /\ UNCHANGED <<store, pc, ver, runStart, prevRec, runStatus, filterVars, policyVars, fetchVars, mainVars, sweepVars, seenVars>>

\* part_001 updateFirestore, one iteration of the for loop
JikanV1Iteration ==
    /\ pc = "loop"
    /\ ver = "jikanV1"
    /\ \E entry \in JikanEntries, processed \in BOOLEAN, readOk \in BOOLEAN,
          t1 \in {now} :
        \E nowIso \in Reads(t1) :
          LET k == entry.key
              animeData == processEpisodeEntry(entry, t1)
              exists == k \in DOMAIN store
              w == JikanV1Write(exists, Snapshot(k), animeData, nowIso, nowIso)
          IN  /\ k \in NextKeys(handled)
              /\ handled' = handled \cup {k}
              /\ IF ~processed \/ ~readOk
                 THEN /\ cnt' = [cnt EXCEPT !.errorCount = @ + 1]
                      /\ last' = [key |-> k, episode |-> entry.episode, ok |-> FALSE, queued |-> FALSE]
                      /\ now' = t1
                      /\ UNCHANGED batch
                 ELSE /\ now' = nowIso
                      /\ last' = [key |-> k, episode |-> entry.episode, ok |-> TRUE, queued |-> w.queued]
                      /\ IF w.queued
                         THEN /\ batch' = Append(batch,
                                     QueuedOp(k, entry.episode, exists, Snapshot(k), w))
                              /\ cnt' = [cnt EXCEPT !.updateCount = @ + 1]
                         ELSE UNCHANGED <<batch, cnt>>
    /\ UNCHANGED <<store, pc, ver, runStart, prevRec, runStatus, filterVars, policyVars, fetchVars, mainVars, sweepVars, seenVars>>

AddedAt(st, k) ==
    IF k \in DOMAIN st THEN FieldOr(st[k], "episodeAddedAt", 0) ELSE 0

BatchKeys(ops) == {ops[i].key : i \in DOMAIN ops}
OpOf(ops, k) == ops[CHOOSE i \in DOMAIN ops : ops[i].key = k]

\* REFRESH as the Reconciler's contract defines it: a prior record is
\* present and the incoming episode does not exceed its latestEpisode
IsCreate(op) == ~op.existed
IsAdvance(op) == op.existed /\ op.episode > FieldOr(op.prev, "latestEpisode", 0)
IsRefresh(op) == op.existed /\ op.episode <= FieldOr(op.prev, "latestEpisode", 0)

\* what a committed write was, for the record of the run
Class(op) ==
    IF IsCreate(op) THEN "create"
    ELSE IF IsAdvance(op) THEN "advance"
    ELSE IF FieldOr(op.prev, "episodeAddedAt", 0) = 0 THEN "refreshUnstamped"
    ELSE "refresh"

\* the entry of op is the entry the previous reconcile of its id was given
SameAgain(rec, op) == rec # NoCheck /\ rec.episode = op.episode

\* batch.commit() succeeds: every queued write reaches the store; the loop
\* has gone through at least one entry (main calls updateFirestore only
\* with a non-empty list)
CommitOk ==
    /\ pc = "loop"
    /\ handled # {}
    /\ store' = ApplyBatch(store, batch)
    /\ runStatus' = [commit |-> "ok", exit |-> 0, by |-> ver,
                     did |-> {Class(batch[i]) : i \in DOMAIN batch}]
    /\ prevRec' = [k \in Keys |->
                     IF k \notin BatchKeys(batch) THEN prevRec[k]
                     ELSE IF ver = "anilist" /\ IsRefresh(OpOf(batch, k))
                     THEN [episode |-> OpOf(batch, k).episode,
                           added |-> AddedAt(ApplyBatch(store, batch), k),
                           first |-> IF SameAgain(prevRec[k], OpOf(batch, k))
                                     THEN prevRec[k].added ELSE 0,
                           twice |-> SameAgain(prevRec[k], OpOf(batch, k))]
                     ELSE NoCheck]
    /\ pc' = "idle"
    /\ ver' = "none"
    /\ runStart' = StartTime
    /\ batch' = <<>>
    /\ handled' = {}
    /\ cnt' = ZeroCnt
    /\ last' = NoCheck
    /\ UNCHANGED <<now, filterVars, policyVars, fetchVars, mainVars, sweepVars, seenVars>>

\* batch.commit() throws: nothing is written; the AniList engine rethrows
\* and main exits 1, the Jikan revisions log the error and main exits 0
CommitFail ==
    /\ pc = "loop"
    /\ handled # {}
    /\ runStatus' = [commit |-> "failed", exit |-> IF ver = "anilist" THEN 1 ELSE 0,
                     by |-> ver, did |-> {}]
    /\ pc' = "idle"
    /\ ver' = "none"
    /\ runStart' = StartTime
    /\ batch' = <<>>
    /\ handled' = {}
    /\ cnt' = ZeroCnt
    /\ last' = NoCheck
    /\ UNCHANGED <<now, store, prevRec, filterVars, policyVars, fetchVars, mainVars, sweepVars, seenVars>>

(***************************************************************************)
(* PaginatedFetcher: fetchPage and fetchRecentlyAiredEpisodes              *)
(***************************************************************************)
\* the response to a request of page p; past its last page upstream answers
\* with an empty list (a missing pageInfo.hasNextPage is falsy)
EmptyPage == [schedules |-> <<>>, hasNextPage |-> FALSE]
\* what fetchPage returns for a response body that arrived: the body is a
\* JSON object; response.data?.data?.Page?.airingSchedules || [] and
\* pageInfo || {}, whose missing hasNextPage is falsy; an errors field is
\* logged and changes nothing
Returned_FlagWithoutPage(body) ==
    [schedules |-> IF HasField(body, "schedules") THEN body.schedules ELSE <<>>,
     hasNextPage |-> TRUE]

Returned(body) ==
    [schedules |-> IF HasField(body, "schedules") THEN body.schedules ELSE <<>>,
     hasNextPage |-> IF HasField(body, "hasNextPage") THEN body.hasNextPage ELSE FALSE]

PageOf(p) == IF p \in DOMAIN upstream THEN Returned(upstream[p]) ELSE EmptyPage

\* while (retries < CONFIG.MAX_RETRIES)
RetryLoop_OneMore(r) == r <= MAX_RETRIES

RetryLoop(r) == r < MAX_RETRIES

\* oldestOnPage < cutoffDate, with cutoffDate = Date.now() / 1000 - 7 days
EarlyExit_Never(oldestOnPage, nowMs) == FALSE

EarlyExit_Inclusive(oldestOnPage, nowMs) ==
    oldestOnPage * 1000 <= nowMs - RECENCY_DAYS * DayMs

EarlyExit(oldestOnPage, nowMs) ==
    oldestOnPage * 1000 < nowMs - RECENCY_DAYS * DayMs

\* hasNextPage = pageInfo.hasNextPage
NextPageFlag_Always(pageInfo) == TRUE

NextPageFlag(pageInfo) == pageInfo.hasNextPage

\* const waitTime = CONFIG.RETRY_DELAY * retries
waitTime_Constant(r) == RETRY_DELAY

waitTime(r) == RETRY_DELAY * r

\* allSchedules.push(...schedules)
push_Front(all, items) == items \o all

push(all, items) == all \o items

\* what the fetcher does on the network and on the timer: axios.post with
\* variables.page, and await delay(ms)
Post(p) == [op |-> "post", page |-> p, ms |-> 0]
Delay(ms) == [op |-> "delay", page |-> 0, ms |-> ms]

\* the wait between two pages of the pagination loop
PageGap_None == <<>>

PageGap == <<Delay(RATE_LIMIT_DELAY)>>

FetchIdle ==
    /\ fpc = "idle"
    /\ currentPage = 1
    /\ hasNextPage = TRUE
    /\ allSchedules = <<>>
    /\ fetchNow = StartTime
    /\ retries = 0
    /\ attempts = 0
    /\ pageResult = "none"
    /\ fetchLog = <<>>

\* fetchRecentlyAiredEpisodes is entered: the cutoff is computed and the
\* loop calls fetchPage(1)
FetchStart ==
    /\ fpc = "idle"
    /\ fpc' = "fetchPage"
    /\ currentPage' = 1
    /\ hasNextPage' = TRUE
    /\ allSchedules' = <<>>
    /\ fetchNow' = now
    /\ retries' = 0
    /\ attempts' = 0
    /\ pageResult' = "none"
    /\ fetchLog' = <<>>
    /\ UNCHANGED <<now, upstream, reconVars, filterVars, policyVars, mainVars, sweepVars, seenVars>>

\* fetchPage: axios.post throws; after the last failed attempt the loop
\* ends and fetchPage returns null
AttemptFails ==
    /\ fpc = "fetchPage"
    /\ RetryLoop(retries)
    /\ attempts' = attempts + 1
    /\ retries' = retries + 1
    /\ IF RetryLoop(retries + 1)
       THEN /\ fetchLog' = fetchLog \o <<Post(currentPage), Delay(waitTime(retries + 1))>>
            /\ UNCHANGED <<fpc, pageResult>>
       ELSE /\ fetchLog' = Append(fetchLog, Post(currentPage))
            /\ pageResult' = "null"
            /\ fpc' = "gotPage"
    /\ UNCHANGED <<now, upstream, currentPage, hasNextPage, allSchedules, fetchNow,
                   reconVars, filterVars, policyVars, mainVars, sweepVars, seenVars>>

\* fetchPage: axios.post answers; fetchPage returns { schedules, pageInfo }
AttemptSucceeds ==
    /\ fpc = "fetchPage"
    /\ RetryLoop(retries)
    /\ attempts' = attempts + 1
    /\ pageResult' = "ok"
    /\ fpc' = "gotPage"
    /\ fetchLog' = Append(fetchLog, Post(currentPage))
    /\ UNCHANGED <<now, upstream, currentPage, hasNextPage, allSchedules, fetchNow,
                   retries, reconVars, filterVars, policyVars, mainVars, sweepVars, seenVars>>

\* the body of the while loop after fetchPage has returned
ProcessPage ==
    /\ fpc = "gotPage"
    /\ IF pageResult = "null"
       THEN /\ fpc' = "returned"
            /\ UNCHANGED <<currentPage, hasNextPage, allSchedules, retries, attempts,
                           pageResult, fetchLog>>
       ELSE LET page == PageOf(currentPage)
                n == Len(page.schedules)
            IN  /\ allSchedules' = push(allSchedules, page.schedules)
                /\ IF n > 0 /\ EarlyExit(page.schedules[n].airingAt, fetchNow)
                   THEN /\ hasNextPage' = FALSE
                        /\ fpc' = "returned"
                        /\ UNCHANGED <<currentPage, retries, attempts, pageResult,
                                       fetchLog>>
                   ELSE /\ hasNextPage' = NextPageFlag(page)
                        /\ IF NextPageFlag(page)
                           THEN /\ currentPage' = currentPage + 1
                                /\ fpc' = "fetchPage"
                                /\ retries' = 0
                                /\ attempts' = 0
                                /\ pageResult' = "none"
                                /\ fetchLog' = fetchLog \o PageGap
                           ELSE /\ fpc' = "returned"
                                /\ UNCHANGED <<currentPage, retries, attempts,
                                               pageResult, fetchLog>>
    /\ UNCHANGED <<now, upstream, fetchNow, reconVars, filterVars, policyVars, mainVars, sweepVars, seenVars>>

\* entries as the fetcher sees them: it reads only airingAt
FetchEntries == [airingAt : AiringTimes]
PageBodies == [schedules : SeqsUpTo(FetchEntries, MaxPageLen), hasNextPage : BOOLEAN]

\* response bodies of every shape: Page data, Page data next to an errors
\* field, an errors field alone, and neither
RecentEntry == [airingAt |-> CutoffSec]
ResponseBodies ==
    LET pages == [schedules : SeqsUpTo({RecentEntry}, MaxPageLen), hasNextPage : BOOLEAN]
    IN  pages
          \cup {Merge(b, [errors |-> TRUE]) : b \in pages}
          \cup {[errors |-> TRUE], EmptyDoc}

(***************************************************************************)
(* main of the AniList engine: fetch, filter, updateFirestore              *)
(***************************************************************************)
MainIdle ==
    /\ mpc = "fetch"
    /\ exitCode = 0
    /\ filterNow = StartTime
    /\ episodesList = <<>>

\* schedules.length === 0
NoSchedules_OrFailed(s) == Len(s) = 0 \/ pageResult = "null"

NoSchedules(s) == Len(s) = 0

\* Step 1 is over: fetchRecentlyAiredEpisodes has returned
MainFetched ==
    /\ mpc = "fetch"
    /\ fpc = "returned"
    /\ schedules' = allSchedules
    /\ IF NoSchedules(allSchedules)
       THEN /\ mpc' = "exited"
            /\ exitCode' = 1
       ELSE /\ mpc' = "filter"
            /\ UNCHANGED exitCode
    \* the log covers the call in progress: it ends with the call
    /\ fetchLog' = <<>>
    /\ UNCHANGED <<now, latestEpisodes, filterDone, filterNow, episodesList, reconVars,
                   policyVars, upstream, fpc, currentPage, hasNextPage, allSchedules,
                   fetchNow, retries, attempts, pageResult, sweepVars, seenVars>>

\* latestEpisodes.length === 0
NoneAdmitted_Never(latest) == FALSE

NoneAdmitted(latest) == Len(latest) = 0

\* Step 2: filterLatestEpisodes; with a non-empty result main enters
\* updateFirestore
MainFilter ==
    /\ mpc = "filter"
    /\ \E t \in Reads(now) :
          /\ now' = t
          /\ filterNow' = t
          /\ latestEpisodes' = filterLatestEpisodes(schedules, t)
          /\ filterDone' = TRUE
          /\ IF NoneAdmitted(filterLatestEpisodes(schedules, t))
             THEN /\ mpc' = "exited"
                  /\ exitCode' = 0
                  /\ UNCHANGED <<pc, ver, runStart>>
             ELSE /\ mpc' = "update"
                  /\ pc' = "loop"
                  /\ ver' = "anilist"
                  /\ runStart' = fetchNow
                  /\ UNCHANGED exitCode
    /\ batch' = <<>>
    /\ handled' = {}
    /\ cnt' = ZeroCnt
    /\ last' = NoCheck
    /\ UNCHANGED <<store, prevRec, runStatus, schedules, episodesList, policyVars,
                   fetchVars, sweepVars, seenVars>>

\* Step 3, updateFirestore: the iteration for the next entry of
\* latestEpisodes
AllHandled_AfterFirst == handled # {}

AllHandled == Cardinality(handled) = Len(latestEpisodes)

MainIteration ==
    /\ mpc = "update"
    /\ ver = "anilist"
    /\ pc = "loop"
    /\ ~AllHandled
    /\ \E titleOk \in BOOLEAN, readOk \in BOOLEAN, t1 \in {now} :
        \E t2 \in Reads(t1) :
          LET e == latestEpisodes[Cardinality(handled) + 1]
              k == e.media.idMal
              data == [key |-> k, episode |-> e.episode, airingTime |-> e.airingTime]
              animeData == convertToFirestoreFormat(data, t1, t2)
              exists == k \in DOMAIN store
              w == AniListWrite(exists, Snapshot(k), animeData)
          IN  /\ handled' = handled \cup {k}
              /\ IF ~titleOk
                 THEN /\ cnt' = [cnt EXCEPT !.errorCount = @ + 1]
                      /\ last' = [key |-> k, episode |-> e.episode, ok |-> FALSE,
                                  queued |-> FALSE]
                      /\ UNCHANGED <<batch, now>>
                 ELSE IF ~readOk
                 THEN /\ cnt' = [cnt EXCEPT !.errorCount = @ + 1]
                      /\ last' = [key |-> k, episode |-> e.episode, ok |-> FALSE,
                                  queued |-> FALSE]
                      /\ now' = t2
                      /\ UNCHANGED batch
                 ELSE /\ now' = t2
                      /\ last' = [key |-> k, episode |-> e.episode, ok |-> TRUE,
                                  queued |-> w.queued]
                      /\ batch' = Append(batch, QueuedOp(k, e.episode, exists,
                                                         Snapshot(k), w))
                      /\ cnt' = Bump(cnt, w.kind)
    /\ UNCHANGED <<store, pc, ver, runStart, prevRec, runStatus, filterVars, policyVars,
                   fetchVars, mainVars, sweepVars, seenVars>>

\* batch.commit() after the loop has gone through every entry
MainCommitOk ==
    /\ mpc = "update"
    /\ ver = "anilist"
    /\ AllHandled
    /\ CommitOk

MainCommitFail ==
    /\ mpc = "update"
    /\ ver = "anilist"
    /\ AllHandled
    /\ CommitFail

(***************************************************************************)
(* main of fetch.js                                                        *)
(***************************************************************************)
\* episodesList.length > 0
HasEpisodes_Always(list) == TRUE

HasEpisodes(list) == Len(list) > 0

\* what /watch/episodes serves: entries of up to MaxSchedules series, one
\* entry per series
JikanListEntries ==
    UNION {[key : {k}, episode : 0..MaxEpisode, status : JikanStatuses,
            airedDate : AiredFrom(k)] : k \in IdMals \ {0}}
JikanLists ==
    {l \in SeqsUpTo(JikanListEntries, MaxSchedules) :
        \A i, j \in DOMAIN l : i # j => l[i].key # l[j].key}

\* fetchLatestEpisodes has returned: response.data.data || [], or [] when
\* the request threw; with entries main enters updateFirestore, without it
\* logs and goes on to process.exit(0).  fetch.js asks Jikan: the AniList
\* upstream stays unused.
JikanFetched ==
    /\ mpc = "fetch"
    /\ fpc = "idle"
    /\ pc = "idle"
    /\ upstream = <<>>
    /\ \E list \in JikanLists, threw \in BOOLEAN :
          LET got == IF threw THEN <<>> ELSE list
          IN  /\ episodesList' = got
              /\ IF HasEpisodes(got)
                 THEN /\ mpc' = "update"
                      /\ pc' = "loop"
                 ELSE /\ mpc' = "exited"
                      /\ UNCHANGED pc
    /\ ver' = "jikanFixed"
    /\ exitCode' = 0
    /\ fpc' = "returned"
    /\ runStart' = now
    /\ batch' = <<>>
    /\ handled' = {}
    /\ cnt' = ZeroCnt
    /\ last' = NoCheck
    /\ UNCHANGED <<now, store, prevRec, runStatus, filterNow, upstream, currentPage,
                   hasNextPage, allSchedules, fetchNow, retries, attempts, pageResult,
                   fetchLog,
                   filterVars, policyVars, sweepVars, seenVars>>

JikanAllHandled == Cardinality(handled) = Len(episodesList)

\* updateFirestore of fetch.js: the iteration for the next entry of
\* episodesList
JikanMainIteration ==
    /\ mpc = "update"
    /\ ver = "jikanFixed"
    /\ pc = "loop"
    /\ ~JikanAllHandled
    /\ \E processed \in BOOLEAN, readOk \in BOOLEAN, t1 \in {now} :
        \E nowIso \in Reads(t1) :
          LET entry == episodesList[Cardinality(handled) + 1]
              k == entry.key
              animeData == processEpisodeEntry(entry, t1)
              exists == k \in DOMAIN store
              w == JikanFixedWrite(exists, Snapshot(k), animeData, nowIso)
          IN  /\ handled' = handled \cup {k}
              /\ IF ~processed
                 THEN /\ cnt' = [cnt EXCEPT !.skippedOldCount = @ + 1]
                      /\ last' = [key |-> k, episode |-> entry.episode, ok |-> FALSE,
                                  queued |-> FALSE]
                      /\ now' = t1
                      /\ UNCHANGED batch
                 ELSE IF ~readOk
                 THEN /\ cnt' = [cnt EXCEPT !.errorCount = @ + 1]
                      /\ last' = [key |-> k, episode |-> entry.episode, ok |-> FALSE,
                                  queued |-> FALSE]
                      /\ now' = t1
                      /\ UNCHANGED batch
                 ELSE /\ now' = nowIso
                      /\ last' = [key |-> k, episode |-> entry.episode, ok |-> TRUE,
                                  queued |-> w.queued]
                      /\ batch' = Append(batch,
                             QueuedOp(k, entry.episode, exists, Snapshot(k), w))
                      /\ cnt' = [cnt EXCEPT !.updateCount = @ + 1]
    /\ UNCHANGED <<store, pc, ver, runStart, prevRec, runStatus, filterVars, policyVars,
                   fetchVars, mainVars, sweepVars, seenVars>>

\* batch.commit() of fetch.js succeeds; main goes on to process.exit(0)
JikanCommitOk ==
    /\ mpc = "update"
    /\ ver = "jikanFixed"
    /\ JikanAllHandled
    /\ CommitOk

\* batch.commit() of fetch.js throws: the error is logged inside
\* updateFirestore and main goes on to process.exit(0)
JikanCommitFail ==
    /\ mpc = "update"
    /\ ver = "jikanFixed"
    /\ JikanAllHandled
    /\ CommitFail

\* the process has exited, and with which code
Exited == mpc = "exited" \/ (mpc = "update" /\ pc = "idle")
ExitCode == IF mpc = "exited" THEN exitCode ELSE runStatus.exit

\* series metadata ContentPolicy rejects for its adult flag, a blocked genre,
\* a blocked tag
BlockedSamples ==
    {[AdmittedSample EXCEPT !.isAdult = TRUE],
     [AdmittedSample EXCEPT !.genres = <<"Action", "Hentai">>],
     [AdmittedSample EXCEPT !.tags = <<"Comedy", "Nudity">>]}

\* upstream entries of two admitted series and of a rejected one
MainBodies ==
    [episode : 1..MaxEpisode, airingAt : AiringTimes, media : FilterMedia]
        \cup [episode : {MaxEpisode}, airingAt : {CutoffSec + 1},
              media : {MediaOf(p, 3, "RELEASING") : p \in BlockedSamples}]

\* upstream serves a list one entry per page, or all of it on one page
Served(list, single) ==
    IF single
    THEN IF list = <<>> THEN <<>> ELSE <<[schedules |-> list, hasNextPage |-> FALSE]>>
    ELSE [p \in DOMAIN list |-> [schedules |-> <<list[p]>>, hasNextPage |-> p < Len(list)]]

\* airingSchedules(sort: TIME_DESC): newest airing time first
TimeDesc(list) ==
    \A i, j \in DOMAIN list : i < j => list[i].airingAt >= list[j].airingAt

SortedBodies == [episode : {1, MaxEpisode}, airingAt : AiringTimes, media : FilterMedia]

\* the collection before the run: empty, or holding series 1 as an earlier
\* run left it
PriorStores ==
    {[k \in {} |-> EmptyDoc],
     [k \in {1} |-> convertToFirestoreFormat(
                       [key |-> 1, episode |-> 1, airingTime |-> CutoffSec],
                       StartTime - DayMs, StartTime - DayMs)]}

(***************************************************************************)
(* RetentionSweeper: the two cleanup scripts                               *)
(***************************************************************************)
\* v2 is "Cleanup Script v2 - IMPROVED", v1 the first cleanup script
SweeperVersions == {"v1", "v2"}

\* document ids are the decimal strings of series ids; the model keeps the
\* number, which is what parseInt(animeId) gives back
OLD_ANIME_IDS == {22729, 32281, 235, 433, 9760, 60666, 59843, 54863}

\* String.prototype.toLowerCase on the status strings the engines store
toLowerCase(s) ==
    CASE s = "Currently Airing" -> "currently airing"
      [] s = "Airing" -> "airing"
      [] s = "Finished Airing" -> "finished airing"
      [] s = "Not yet aired" -> "not yet aired"
      [] OTHER -> s

\* data.status?.toLowerCase() || ''
StatusOf(data) == IF HasField(data, "status") THEN toLowerCase(data.status) ELSE ""

\* now.getTime() - (days * 24 * 60 * 60 * 1000), taken a day at a time: the
\* product of 30 days does not fit the integers of the checker, the
\* result does
RECURSIVE DaysBefore(_, _)
DaysBefore(nowMs, days) ==
    IF days = 0 THEN nowMs ELSE DaysBefore(nowMs - DayMs, days - 1)

\* if (data.f) { if (new Date(data.f) >= new Date(nowMs - days)) ... }
DateWithin(data, f, nowMs, days) ==
    HasField(data, f) /\ data[f] >= DaysBefore(nowMs, days)

\* shouldKeepAnime of the first cleanup script
shouldKeepAnimeV1(data, nowMs) ==
    IF StatusOf(data) = "currently airing" \/ StatusOf(data) = "airing" THEN TRUE
    ELSE IF DateWithin(data, "episodeAiredDate", nowMs, RECENCY_WINDOW_DAYS) THEN TRUE
    ELSE IF DateWithin(data, "airedDate", nowMs, RECENCY_WINDOW_DAYS) THEN TRUE
    ELSE IF DateWithin(data, "episodeAddedAt", nowMs, RECENCY_WINDOW_DAYS) THEN TRUE
    ELSE IF DateWithin(data, "lastUpdated", nowMs, RecentUpdateDays) THEN TRUE
    ELSE FALSE

\* shouldKeepAnime of cleanup script v2, in the order of its tests
shouldKeepAnime_DenylistLast(data, animeId, nowMs) ==
    IF DateWithin(data, "episodeAiredDate", nowMs, RECENCY_WINDOW_DAYS) THEN TRUE
    ELSE IF DateWithin(data, "episodeAddedAt", nowMs, RECENCY_WINDOW_DAYS) THEN TRUE
    ELSE IF DateWithin(data, "airedDate", nowMs, NewSeriesDays) THEN TRUE
    ELSE IF StatusOf(data) = "currently airing" THEN TRUE
    ELSE IF animeId \in OLD_ANIME_IDS THEN FALSE
    ELSE IF StatusOf(data) = "finished airing" THEN FALSE
    ELSE IF DateWithin(data, "lastUpdated", nowMs, RecentUpdateDays) THEN TRUE
    ELSE FALSE

shouldKeepAnime_NoStatus(data, animeId, nowMs) ==
    IF animeId \in OLD_ANIME_IDS THEN FALSE
    ELSE IF DateWithin(data, "episodeAiredDate", nowMs, RECENCY_WINDOW_DAYS) THEN TRUE
    ELSE IF DateWithin(data, "episodeAddedAt", nowMs, RECENCY_WINDOW_DAYS) THEN TRUE
    ELSE IF DateWithin(data, "airedDate", nowMs, NewSeriesDays) THEN TRUE
    ELSE IF StatusOf(data) = "finished airing" THEN FALSE
    ELSE IF DateWithin(data, "lastUpdated", nowMs, RecentUpdateDays) THEN TRUE
    ELSE FALSE

shouldKeepAnime_NewSeriesWeek(data, animeId, nowMs) ==
    IF animeId \in OLD_ANIME_IDS THEN FALSE
    ELSE IF DateWithin(data, "episodeAiredDate", nowMs, RECENCY_WINDOW_DAYS) THEN TRUE
    ELSE IF DateWithin(data, "episodeAddedAt", nowMs, RECENCY_WINDOW_DAYS) THEN TRUE
    ELSE IF DateWithin(data, "airedDate", nowMs, RECENCY_WINDOW_DAYS) THEN TRUE
    ELSE IF StatusOf(data) = "currently airing" THEN TRUE
    ELSE IF StatusOf(data) = "finished airing" THEN FALSE
    ELSE IF DateWithin(data, "lastUpdated", nowMs, RecentUpdateDays) THEN TRUE
    ELSE FALSE

shouldKeepAnime(data, animeId, nowMs) ==
    IF animeId \in OLD_ANIME_IDS THEN FALSE
    ELSE IF DateWithin(data, "episodeAiredDate", nowMs, RECENCY_WINDOW_DAYS) THEN TRUE
    ELSE IF DateWithin(data, "episodeAddedAt", nowMs, RECENCY_WINDOW_DAYS) THEN TRUE
    ELSE IF DateWithin(data, "airedDate", nowMs, NewSeriesDays) THEN TRUE
    ELSE IF StatusOf(data) = "currently airing" THEN TRUE
    ELSE IF StatusOf(data) = "finished airing" THEN FALSE
    ELSE IF DateWithin(data, "lastUpdated", nowMs, RecentUpdateDays) THEN TRUE
    ELSE FALSE

\* the denylist of the running script: the first script has none
Denylist(v) == IF v = "v2" THEN OLD_ANIME_IDS ELSE {}

\* the call made by the forEach callback of the running script
KeepDecision(v, data, animeId, nowMs) ==
    IF v = "v1" THEN shouldKeepAnimeV1(data, nowMs)
    ELSE shouldKeepAnime(data, animeId, nowMs)

NoSnapshot == [k \in {} |-> EmptyDoc]
NoDecisions == [k \in {} |-> NoCheck]

SweepIdle ==
    /\ sweepPc = "idle"
    /\ sweepVer = "none"
    /\ snapshot = NoSnapshot
    /\ decisions = NoDecisions
    /\ sweepExit = 0
    /\ keepCount = 0
    /\ deleteCount = 0
    /\ sweepCommits = 0

\* shouldKeepAnime reads the clock once per document, and forEach visits
\* the documents in the order of their ids
ClockReads(ids, t) ==
    {at \in [ids -> Reads(t)] : \A i, j \in ids : i < j => at[i] <= at[j]}

Latest(at, t) == IF DOMAIN at = {} THEN t
                 ELSE CHOOSE u \in {at[i] : i \in DOMAIN at} : \A i \in DOMAIN at : at[i] <= u

ToDelete_Kept(dec) == {k \in DOMAIN dec : dec[k].keep}

ToDelete(dec) == {k \in DOMAIN dec : ~dec[k].keep}

\* the two counters after the forEach over the documents ids, visited in
\* the order of their ids
RECURSIVE Tally(_, _)
Tally(dec, ids) ==
    IF ids = {} THEN [keepCount |-> 0, deleteCount |-> 0]
    ELSE LET k == CHOOSE i \in ids : \A j \in ids : j <= i
             sofar == Tally(dec, ids \ {k})
         IN  IF dec[k].keep THEN [sofar EXCEPT !.keepCount = @ + 1]
             ELSE [sofar EXCEPT !.deleteCount = @ + 1]

CommitNeeded_Always(n) == TRUE

\* the test that guards batch.commit()
CommitNeeded(n) == n > 0

\* cleanupOldEpisodes up to the commit: episodesRef.get() and the forEach
\* over the snapshot; with nothing to delete the script ends here, exit 0
SweepScan ==
    /\ sweepPc = "idle"
    /\ \E v \in SweeperVersions, at \in ClockReads(DOMAIN store, now) :
          LET dec == [k \in DOMAIN store |->
                        [keep |-> KeepDecision(v, store[k], k, at[k]), at |-> at[k]]]
          IN  /\ sweepVer' = v
              /\ snapshot' = store
              /\ decisions' = dec
              /\ now' = Latest(at, now)
              /\ keepCount' = Tally(dec, DOMAIN store).keepCount
              /\ deleteCount' = Tally(dec, DOMAIN store).deleteCount
              /\ sweepPc' = IF CommitNeeded(Tally(dec, DOMAIN store).deleteCount)
                            THEN "scanned" ELSE "done"
    /\ sweepExit' = 0
    /\ UNCHANGED sweepCommits
    /\ UNCHANGED <<reconVars, filterVars, policyVars, fetchVars, mainVars,
                   seenVars>>

\* episodesRef.get() throws: the error is rethrown and main exits 1
SweepGetFails ==
    /\ sweepPc = "idle"
    /\ \E v \in SweeperVersions : sweepVer' = v
    /\ sweepPc' = "done"
    /\ sweepExit' = 1
    /\ UNCHANGED <<now, snapshot, decisions, keepCount, deleteCount, sweepCommits,
                   reconVars, filterVars, policyVars, fetchVars, mainVars,
                   seenVars>>

\* batch.commit() of the queued deletes succeeds
SweepCommitOk ==
    /\ sweepPc = "scanned"
    /\ store' = [k \in DOMAIN store \ ToDelete(decisions) |-> store[k]]
    /\ sweepCommits' = sweepCommits + 1
    /\ sweepPc' = "done"
    /\ sweepExit' = 0
    /\ UNCHANGED <<now, pc, ver, runStart, batch, handled, cnt, last, prevRec, runStatus,
                   sweepVer, snapshot, decisions, keepCount, deleteCount, filterVars,
                   policyVars, fetchVars, mainVars,
                   seenVars>>

\* batch.commit() throws: nothing is deleted, main exits 1
SweepCommitFails ==
    /\ sweepPc = "scanned"
    /\ sweepCommits' = sweepCommits + 1
    /\ sweepPc' = "done"
    /\ sweepExit' = 1
    /\ UNCHANGED <<now, sweepVer, snapshot, decisions, keepCount, deleteCount,
                   reconVars, filterVars, policyVars, fetchVars, mainVars,
                   seenVars>>

\* the next daily invocation of the cleanup script: a fresh process, a day
\* later
NextSweepRun ==
    /\ sweepPc = "done"
    /\ now + DayMs <= StartTime
    /\ now' = now + DayMs
    /\ sweepPc' = "idle"
    /\ sweepVer' = "none"
    /\ snapshot' = NoSnapshot
    /\ decisions' = NoDecisions
    /\ sweepExit' = 0
    /\ keepCount' = 0
    /\ deleteCount' = 0
    /\ sweepCommits' = 0
    /\ UNCHANGED <<reconVars, filterVars, policyVars, fetchVars, mainVars,
                   seenVars>>

\* the clock when the reconciler created the record that ingestion then
\* never sees again
RetentionStart == DaysBefore(StartTime, MaxDays)

\* the collection the sweeper finds: statuses the engines and Jikan store,
\* and dates on either side of each window of a sweep that starts at
\* StartTime
SweepStatuses == {"Currently Airing", "Airing", "Finished Airing", "Not yet aired"}
WeekAgo == DaysBefore(StartTime, RECENCY_WINDOW_DAYS)
MonthAgo == DaysBefore(StartTime, NewSeriesDays)
TwoDaysAgo == DaysBefore(StartTime, RecentUpdateDays)

\* a field a document may lack: <<>> or <<value>>
Opt(S) == {<<>>} \cup {<<x>> : x \in S}
WithField(doc, f, opt) == IF opt = <<>> THEN doc ELSE Merge(doc, [g \in {f} |-> opt[1]])

SweepDoc(st, aired, added, started, updated) ==
    WithField(WithField(WithField(WithField(WithField(EmptyDoc,
        "status", st), "episodeAiredDate", aired), "episodeAddedAt", added),
        "airedDate", started), "lastUpdated", updated)

StaleDoc(st, updated) ==
    SweepDoc(<<st>>, <<WeekAgo - 1>>, <<WeekAgo - 1>>, <<MonthAgo - 1>>, <<updated>>)

\* the documents beside the one under study
SweepCompanions ==
    {StaleDoc("Finished Airing", TwoDaysAgo - 1),
     StaleDoc("Currently Airing", TwoDaysAgo - 1),
     StaleDoc("Finished Airing", TwoDaysAgo)}

\* the ids of the document under study: one off and one on the denylist
StudyIds == {1, 9760}

(***************************************************************************)
(* cleanup_seen.js: the daily trim of seen_episodes.json                   *)
(***************************************************************************)
SEEN_RECENCY_DAYS == 7      \* RECENCY_DAYS of cleanup_seen.js

\* the keys of the file, and airing times (seconds) on either side of the
\* cutoff of a run that starts at StartTime
SeenKeys == 1..MaxSeen
SeenCutoffSec == (StartTime - SEEN_RECENCY_DAYS * 24 * 60 * 60 * 1000) \div 1000
SeenTimes == {SeenCutoffSec - 1, SeenCutoffSec, SeenCutoffSec + 1}

NoSeen == [k \in {} |-> 0]

\* the file holds a JSON object of integer airing times: JSON.stringify
\* followed by JSON.parse gives back the same keys and numbers
SeenFiles == {<<>>} \cup {<<f>> : f \in UNION {[ks -> SeenTimes] : ks \in SUBSET SeenKeys}}

SeenIdle ==
    /\ seenPc = "idle"
    /\ seenFile = <<>>
    /\ raw = NoSeen
    /\ total = 0
    /\ cutoff = 0
    /\ removed = 0
    /\ seenExit = 0

\* cutoff = now - RECENCY_DAYS * 24 * 60 * 60 with now = Date.now() / 1000,
\* kept in ms so that the fraction of a second is not lost
cutoffOf(nowMs) == nowMs - SEEN_RECENCY_DAYS * 24 * 60 * 60 * 1000

Fresh_Strict(airingAt, c) == airingAt * 1000 > c

\* airingAt >= cutoff, airingAt in seconds and the cutoff c in ms
Fresh(airingAt, c) == airingAt * 1000 >= c

\* the loop over Object.entries(raw)
trimmed(r, c) == [k \in {i \in DOMAIN r : Fresh(r[i], c)} |-> r[k]]

\* fs.existsSync is false: the script exits 0 before it reads or writes
CleanupSeenMissing ==
    /\ seenFile = <<>>
    /\ \E at \in Reads(now) : now' = at
    /\ seenPc' = "exited"
    /\ seenExit' = 0
    /\ UNCHANGED <<seenFile, raw, total, cutoff, removed, reconVars, filterVars,
                   policyVars, fetchVars, mainVars, sweepVars>>

\* the file exists: it is read, trimmed and written back, and the script
\* runs to its end
CleanupSeen ==
    /\ seenFile # <<>>
    /\ \E at \in Reads(now) :
          LET r == seenFile[1]
              t == trimmed(r, cutoffOf(at))
          IN  /\ now' = at
              /\ raw' = r
              /\ total' = Cardinality(DOMAIN r)
              /\ cutoff' = cutoffOf(at)
              /\ removed' = Cardinality(DOMAIN r \ DOMAIN t)
              /\ seenFile' = <<t>>
    /\ seenPc' = "done"
    /\ seenExit' = 0
    /\ UNCHANGED <<reconVars, filterVars, policyVars, fetchVars, mainVars, sweepVars>>

(***************************************************************************)
(* Specifications                                                          *)
(***************************************************************************)
Init ==
    /\ now = StartTime
    /\ ReconIdle
    /\ FilterIdle
    /\ PolicyIdle
    /\ FetchIdle
    /\ MainIdle
    /\ SweepIdle
    /\ SeenIdle
    /\ upstream = <<>>

Next ==
    \/ StartRun
    \/ AniListIteration
    \/ JikanFixedIteration
    \/ JikanV1Iteration
    \/ CommitOk
    \/ CommitFail

Spec == Init /\ [][Next]_vars

\* filterLatestEpisodes applied to every bounded list of upstream entries
InitFilter ==
    /\ now = StartTime
    /\ ReconIdle
    /\ PolicyIdle
    /\ \E n \in 0..MaxSchedules :
          \E b \in [1..n -> ScheduleBodies] : schedules = WithIds(b)
    /\ latestEpisodes = <<>>
    /\ filterDone = FALSE
    /\ FetchIdle
    /\ MainIdle
    /\ SweepIdle
    /\ SeenIdle
    /\ upstream = <<>>

NextFilter == RunFilter

SpecFilter == InitFilter /\ [][NextFilter]_vars

\* ContentPolicy applied to every bounded series metadata
InitPolicy ==
    /\ now = StartTime
    /\ ReconIdle
    /\ FilterIdle
    /\ media \in PolicyMedia
    /\ adultCheck = NoCheck
    /\ animeCheck = NoCheck
    /\ policyDone = FALSE
    /\ FetchIdle
    /\ MainIdle
    /\ SweepIdle
    /\ SeenIdle
    /\ upstream = <<>>

NextPolicy == EvaluatePolicy

SpecPolicy == InitPolicy /\ [][NextPolicy]_vars

\* the fetcher against every bounded upstream
InitFetch ==
    /\ now = StartTime
    /\ ReconIdle
    /\ FilterIdle
    /\ PolicyIdle
    /\ FetchIdle
    /\ MainIdle
    /\ SweepIdle
    /\ SeenIdle
    /\ \E n \in 0..MaxPages : upstream \in [1..n -> PageBodies]

NextFetch ==
    \/ FetchStart
    \/ AttemptFails
    \/ AttemptSucceeds
    \/ ProcessPage

SpecFetch == InitFetch /\ [][NextFetch]_vars

\* the fetcher where every pending await settles: axios.post answers or
\* throws within its timeout, and the timer of delay(ms) fires
SpecFetchFair == InitFetch /\ [][NextFetch]_vars /\ WF_vars(NextFetch)

\* the fetcher against upstreams that answer with bodies of every shape
InitResponses ==
    /\ now = StartTime
    /\ ReconIdle
    /\ FilterIdle
    /\ PolicyIdle
    /\ FetchIdle
    /\ MainIdle
    /\ SweepIdle
    /\ SeenIdle
    /\ \E n \in 0..MaxPages : upstream \in [1..n -> ResponseBodies]

SpecResponses == InitResponses /\ [][NextFetch]_vars

\* one run of main against every bounded upstream list
InitMain ==
    /\ now = StartTime
    /\ PolicyIdle
    /\ FilterIdle
    /\ FetchIdle
    /\ MainIdle
    /\ SweepIdle
    /\ SeenIdle
    /\ pc = "idle"
    /\ ver = "none"
    /\ runStart = StartTime
    /\ batch = <<>>
    /\ handled = {}
    /\ cnt = ZeroCnt
    /\ last = NoCheck
    /\ prevRec = [k \in Keys |-> NoCheck]
    /\ runStatus = NoRun
    /\ store \in PriorStores
    /\ \E n \in 0..MaxSchedules, single \in BOOLEAN :
          \E b \in [1..n -> MainBodies] : upstream = Served(WithIds(b), single)

NextMain ==
    \/ FetchStart
    \/ AttemptFails
    \/ AttemptSucceeds
    \/ ProcessPage
    \/ MainFetched
    \/ MainFilter
    \/ MainIteration
    \/ MainCommitOk
    \/ MainCommitFail

SpecMain == InitMain /\ [][NextMain]_vars

\* ingestion runs of the three engine revisions and one run of a cleanup
\* script, as separate processes on the same collection: the steps of the
\* sweep interleave with the iterations and the commit of a run.  The
\* collection is empty or holds a complete record of series 1 that both
\* cleanup scripts delete, and the clock leaves MaxRaceTicks readings
SweptRecord ==
    Merge(StaleDoc("Finished Airing", TwoDaysAgo - 1), [animeId |-> 1, latestEpisode |-> 1])

InitInterleaved ==
    /\ now = MaxTime - MaxRaceTicks
    /\ FilterIdle
    /\ PolicyIdle
    /\ FetchIdle
    /\ MainIdle
    /\ SweepIdle
    /\ SeenIdle
    /\ upstream = <<>>
    /\ pc = "idle"
    /\ ver = "none"
    /\ runStart = StartTime
    /\ batch = <<>>
    /\ handled = {}
    /\ cnt = ZeroCnt
    /\ last = NoCheck
    /\ prevRec = [k \in Keys |-> NoCheck]
    /\ runStatus = NoRun
    /\ store \in {[k \in {} |-> EmptyDoc], [k \in {1} |-> SweptRecord]}

NextInterleaved ==
    \/ StartRun
    \/ AniListIteration
    \/ JikanFixedIteration
    \/ JikanV1Iteration
    \/ CommitOk
    \/ CommitFail
    \/ SweepScan
    \/ SweepGetFails
    \/ SweepCommitOk
    \/ SweepCommitFails

SpecInterleaved == InitInterleaved /\ [][NextInterleaved]_vars

\* one run of main against every bounded upstream list of admitted series
\* that is sorted as upstream promises
InitSorted ==
    /\ now = StartTime
    /\ ReconIdle
    /\ PolicyIdle
    /\ FilterIdle
    /\ FetchIdle
    /\ MainIdle
    /\ SweepIdle
    /\ SeenIdle
    /\ \E n \in 0..MaxUpstream, single \in BOOLEAN :
          \E b \in [1..n -> SortedBodies] :
              /\ TimeDesc(b)
              /\ upstream = Served(WithIds(b), single)

SpecSorted == InitSorted /\ [][NextMain]_vars

\* one sweep by either cleanup script over every bounded collection: one
\* document with every combination of status and dates under id 1 or under
\* a denylisted id, and up to MaxRecords - 1 documents beside it
InitSweep ==
    /\ now = StartTime
    /\ PolicyIdle
    /\ FilterIdle
    /\ FetchIdle
    /\ MainIdle
    /\ SweepIdle
    /\ SeenIdle
    /\ upstream = <<>>
    /\ pc = "idle"
    /\ ver = "none"
    /\ runStart = StartTime
    /\ batch = <<>>
    /\ handled = {}
    /\ cnt = ZeroCnt
    /\ last = NoCheck
    /\ prevRec = [k \in Keys |-> NoCheck]
    /\ runStatus = NoRun
    /\ \E id \in StudyIds,
          st \in Opt(SweepStatuses),
          aired \in Opt({WeekAgo - 1, WeekAgo}),
          added \in Opt({WeekAgo - 1, WeekAgo}),
          started \in Opt({MonthAgo - 1, MonthAgo, WeekAgo}),
          updated \in Opt({TwoDaysAgo - 1, TwoDaysAgo}),
          n \in 0..(MaxRecords - 1) :
          \E others \in [2..(n + 1) -> SweepCompanions] :
              store = [k \in {id} \cup DOMAIN others |->
                          IF k = id THEN SweepDoc(st, aired, added, started, updated)
                          ELSE others[k]]

NextSweep ==
    \/ SweepScan
    \/ SweepGetFails
    \/ SweepCommitOk
    \/ SweepCommitFails

SpecSweep == InitSweep /\ [][NextSweep]_vars

\* daily sweeps over a collection that holds one record the AniList
\* reconciler created at RetentionStart and never wrote again
InitRetention ==
    /\ now = RetentionStart
    /\ PolicyIdle
    /\ FilterIdle
    /\ FetchIdle
    /\ MainIdle
    /\ SweepIdle
    /\ SeenIdle
    /\ upstream = <<>>
    /\ pc = "idle"
    /\ ver = "none"
    /\ runStart = StartTime
    /\ batch = <<>>
    /\ handled = {}
    /\ cnt = ZeroCnt
    /\ last = NoCheck
    /\ prevRec = [k \in Keys |-> NoCheck]
    /\ runStatus = NoRun
    /\ \E id \in StudyIds, ep \in 1..MaxEpisode,
          aired \in {(RetentionStart \div 1000) - 1, RetentionStart \div 1000},
          t1 \in {RetentionStart - 1, RetentionStart},
          t2 \in {RetentionStart - 1, RetentionStart} :
          /\ t1 <= t2
          /\ store = [k \in {id} |->
                        convertToFirestoreFormat(
                            [key |-> id, episode |-> ep, airingTime |-> aired], t1, t2)]

NextRetention ==
    \/ SweepScan
    \/ SweepGetFails
    \/ SweepCommitOk
    \/ SweepCommitFails
    \/ NextSweepRun

\* the scheduler starts the cleanup script every day, and reading and
\* committing do not fail for ever
SpecRetention ==
    /\ InitRetention
    /\ [][NextRetention]_vars
    /\ WF_vars(NextSweepRun)
    /\ SF_vars(SweepScan)
    /\ SF_vars(SweepCommitOk)

\* one run of either engine: main of the AniList engine, or main of fetch.js
NextEngines ==
    \/ FetchStart
    \/ AttemptFails
    \/ AttemptSucceeds
    \/ ProcessPage
    \/ MainFetched
    \/ MainFilter
    \/ MainIteration
    \/ MainCommitOk
    \/ MainCommitFail
    \/ JikanFetched
    \/ JikanMainIteration
    \/ JikanCommitOk
    \/ JikanCommitFail

SpecEngines == InitMain /\ [][NextEngines]_vars

\* cleanup_seen.js run day after day on every bounded file, or on none
InitSeen ==
    /\ now = StartTime
    /\ ReconIdle
    /\ FilterIdle
    /\ PolicyIdle
    /\ FetchIdle
    /\ MainIdle
    /\ SweepIdle
    /\ upstream = <<>>
    /\ seenPc = "idle"
    /\ seenFile \in SeenFiles
    /\ raw = NoSeen
    /\ total = 0
    /\ cutoff = 0
    /\ removed = 0
    /\ seenExit = 0

NextSeen ==
    \/ CleanupSeenMissing
    \/ CleanupSeen

SpecSeen == InitSeen /\ [][NextSeen]_vars

(***************************************************************************)
(* Reconciler properties                                                   *)
(***************************************************************************)
\* a step in which batch.commit() of a run succeeded
Committed == pc = "loop" /\ pc' = "idle" /\ runStatus'.commit = "ok"

\* the transition of id k with incoming episode ep, decided on the store
CreateOf(k) == k \notin DOMAIN store
AdvanceOf(k, ep) == k \in DOMAIN store /\ ep > FieldOr(store[k], "latestEpisode", 0)
RefreshOf(k, ep) == k \in DOMAIN store /\ ep <= FieldOr(store[k], "latestEpisode", 0)

AddedAtChanges(k) == AddedAt(store', k) # AddedAt(store, k)

\* C1 as stated: in every reconcile by the AniList engine or by fetch.js the
\* persisted episodeAddedAt of the key changes if and only if the
\* transition is CREATE or ADVANCE; a REFRESH never changes it
C1_AddedAtChangesIffCreateOrAdvance ==
    [][(Committed /\ ver \in {"anilist", "jikanFixed"}) =>
          \A i \in DOMAIN batch :
             AddedAtChanges(batch[i].key) <=>
                (CreateOf(batch[i].key) \/ AdvanceOf(batch[i].key, batch[i].episode))]_vars

\* C1 amended: the persisted episodeAddedAt changes if and only if the
\* transition is CREATE, ADVANCE, or a REFRESH of a record that has no
\* episodeAddedAt (it is backfilled); a REFRESH of a record that has
\* episodeAddedAt leaves it unchanged
C1_AddedAtChangesIffCreateAdvanceOrBackfill ==
    [][(Committed /\ ver \in {"anilist", "jikanFixed"}) =>
          \A i \in DOMAIN batch :
             AddedAtChanges(batch[i].key) <=>
                \/ CreateOf(batch[i].key)
                \/ AdvanceOf(batch[i].key, batch[i].episode)
                \/ /\ RefreshOf(batch[i].key, batch[i].episode)
                   /\ AddedAt(store, batch[i].key) = 0]_vars

\* a REFRESH by the AniList engine or fetch.js has been committed and the
\* record it refreshed had, and has kept, its episodeAddedAt
C1_Witness ==
    /\ runStatus.commit = "ok"
    /\ runStatus.by \in {"anilist", "jikanFixed"}
    /\ "refresh" \in runStatus.did

\* C2 as stated: episodeAddedAt of a key never decreases, and between two
\* consecutive states of a record it differs only if the record was
\* created or its latestEpisode strictly increased in that step
C2_AddedAtMonotoneChangesOnlyOnCreateOrAdvance ==
    [][\A k \in DOMAIN store' :
          /\ AddedAt(store', k) >= AddedAt(store, k)
          /\ AddedAtChanges(k) =>
                \/ k \notin DOMAIN store
                \/ store'[k].latestEpisode > FieldOr(store[k], "latestEpisode", 0)]_vars

\* C2 amended: episodeAddedAt of a key never decreases, and it differs
\* between two consecutive states of a record only if the record was
\* created, its latestEpisode strictly increased, or the record had no
\* episodeAddedAt before the step (backfill)
C2_AddedAtMonotoneChangesOnlyOnCreateAdvanceOrBackfill ==
    [][\A k \in DOMAIN store' :
          /\ AddedAt(store', k) >= AddedAt(store, k)
          /\ AddedAtChanges(k) =>
                \/ k \notin DOMAIN store
                \/ store'[k].latestEpisode > FieldOr(store[k], "latestEpisode", 0)
                \/ AddedAt(store, k) = 0]_vars

\* a run has advanced a stamped record: its episodeAddedAt moved forward
C2_Witness ==
    /\ runStatus.commit = "ok"
    /\ "advance" \in runStatus.did
    /\ \E k \in DOMAIN store : AddedAt(store, k) > StartTime + 1

LastQueuedNow ==
    /\ last.queued
    /\ batch # <<>>
    /\ batch[Len(batch)].key = last.key
    /\ runStart <= batch[Len(batch)].data.lastUpdated
    /\ batch[Len(batch)].data.lastUpdated <= now

\* C4 as stated: every entry whose conversion and store read succeed is
\* queued for a write, in the AniList engine and in part_001 alike, and the
\* write carries lastUpdated of the current run
C4_EverySuccessfulEntryIsQueued ==
    (pc = "loop" /\ ver \in {"anilist", "jikanV1"} /\ last # NoCheck /\ last.ok) =>
        LastQueuedNow

\* C4 amended: every entry whose conversion and store read succeed is queued
\* for a write carrying lastUpdated of the current run, except that part_001
\* skips the write of an existing record whose incoming episode number
\* equals the stored latestEpisode (unless it backfills episodeAddedAt)
C4_EverySuccessfulEntryIsQueuedButV1Unchanged ==
    (pc = "loop" /\ last # NoCheck /\ last.ok) =>
        \/ LastQueuedNow
        \/ /\ ver = "jikanV1"
           /\ ~last.queued
           /\ last.key \in DOMAIN store
           /\ last.episode = FieldOr(store[last.key], "latestEpisode", 0)

\* the AniList engine has queued a REFRESH
C4_Witness ==
    /\ pc = "loop"
    /\ ver = "anilist"
    /\ last # NoCheck
    /\ last.ok
    /\ batch # <<>>
    /\ IsRefresh(batch[Len(batch)])

\* C5: when the AniList engine reconciles the same non-advancing entry
\* twice in a row, episodeAddedAt after the second reconcile equals
\* episodeAddedAt after the first
C5_RefreshTwiceIdempotent ==
    \A k \in Keys :
        (prevRec[k] # NoCheck /\ prevRec[k].twice) =>
            /\ prevRec[k].added = prevRec[k].first
            /\ AddedAt(store, k) = prevRec[k].first

\* the same non-advancing entry has been reconciled twice in a row
C5_Witness ==
    \E k \in Keys : prevRec[k] # NoCheck /\ prevRec[k].twice /\ prevRec[k].first # 0

(***************************************************************************)
(* Deduplicator properties                                                 *)
(***************************************************************************)
\* the six predicates of ContentPolicy, each on its own
AdultFlagPasses(m) == m.isAdult # TRUE
GenresPass(m) == \A i \in DOMAIN m.genres : m.genres[i] \notin BLOCKED_GENRES
TagsPass(m) == \A i \in DOMAIN m.tags : m.tags[i] \notin BLOCKED_TAGS
TypePasses(m) == m.type = "ANIME"
FormatPasses(m) == m.format \in ALLOWED_FORMATS
CountryPasses(m) == m.countryOfOrigin = "" \/ m.countryOfOrigin \in ALLOWED_COUNTRIES

AllSixPass(m) ==
    /\ AdultFlagPasses(m)
    /\ GenresPass(m)
    /\ TagsPass(m)
    /\ TypePasses(m)
    /\ FormatPasses(m)
    /\ CountryPasses(m)

WindowMs == RECENCY_DAYS * DayMs

\* a surviving input entry: id present, admitted by ContentPolicy, aired at
\* or after the cutoff, series RELEASING
Surviving(s) ==
    /\ s.media # NullMedia
    /\ s.media.idMal # 0
    /\ AllSixPass(s.media)
    /\ s.airingAt * 1000 >= now - WindowMs
    /\ s.media.status = "RELEASING"

SurvivorsOf(id) ==
    {j \in DOMAIN schedules : Surviving(schedules[j]) /\ schedules[j].media.idMal = id}

MaxEpisodeOf(id) ==
    CHOOSE e \in {schedules[j].episode : j \in SurvivorsOf(id)} :
        \A j \in SurvivorsOf(id) : schedules[j].episode <= e

\* C6: the output has at most one entry per idMal, and that entry's episode
\* is the greatest episode among the surviving input entries of that id,
\* whatever the order of arrival
C6_OnePerIdWithMaxEpisode ==
    filterDone =>
        /\ \A i, j \in DOMAIN latestEpisodes :
              i # j => latestEpisodes[i].media.idMal # latestEpisodes[j].media.idMal
        /\ \A i \in DOMAIN latestEpisodes :
              /\ SurvivorsOf(latestEpisodes[i].media.idMal) # {}
              /\ latestEpisodes[i].episode = MaxEpisodeOf(latestEpisodes[i].media.idMal)

\* two surviving entries of one series arrived, the higher episode first
C6_Witness ==
    /\ filterDone
    /\ Len(schedules) >= 2
    /\ Surviving(schedules[1])
    /\ Surviving(schedules[2])
    /\ schedules[1].media.idMal = schedules[2].media.idMal
    /\ schedules[1].episode > schedules[2].episode
    /\ Len(latestEpisodes) = 1

\* C7: every output entry is an input entry with a present idMal, admitted
\* by ContentPolicy, aired at or after the cutoff and RELEASING; an input
\* entry violating one of the four never appears; an entry aired exactly at
\* the cutoff is not dropped for its age
C7_OutputOnlySurvivors ==
    filterDone =>
        /\ \A i \in DOMAIN latestEpisodes :
              /\ latestEpisodes[i].scheduleId \in DOMAIN schedules
              /\ Surviving(schedules[latestEpisodes[i].scheduleId])
              /\ latestEpisodes[i].media = schedules[latestEpisodes[i].scheduleId].media
              /\ latestEpisodes[i].airingTime = schedules[latestEpisodes[i].scheduleId].airingAt
        /\ \A j \in DOMAIN schedules :
              ~Surviving(schedules[j]) =>
                 \A i \in DOMAIN latestEpisodes : latestEpisodes[i].scheduleId # j
        /\ \A j \in DOMAIN schedules :
              (/\ Surviving(schedules[j])
               /\ schedules[j].airingAt * 1000 = now - WindowMs
               /\ SurvivorsOf(schedules[j].media.idMal) = {j}) =>
                 \E i \in DOMAIN latestEpisodes : latestEpisodes[i].scheduleId = j

\* an entry aired exactly at the cutoff is in the output while an entry of
\* another series that is not RELEASING was dropped
C7_Witness ==
    /\ filterDone
    /\ \E i \in DOMAIN latestEpisodes :
          latestEpisodes[i].airingTime * 1000 = now - WindowMs
    /\ \E j \in DOMAIN schedules :
          /\ schedules[j].media # NullMedia
          /\ schedules[j].media.idMal # 0
          /\ AllSixPass(schedules[j].media)
          /\ schedules[j].media.status # "RELEASING"

\* C8: the output has exactly one entry for every idMal that has at least
\* one surviving input entry
C8_ExactlyOnePerSurvivingId ==
    filterDone =>
        \A id \in IdMals \ {0} :
            SurvivorsOf(id) # {} =>
                Cardinality({i \in DOMAIN latestEpisodes :
                                latestEpisodes[i].media.idMal = id}) = 1

\* two series have one surviving entry each and both are in the output
C8_Witness ==
    /\ filterDone
    /\ Len(latestEpisodes) = 2
    /\ \A id \in IdMals \ {0} : Cardinality(SurvivorsOf(id)) = 1

\* C9: of the surviving entries of a series with the greatest episode the
\* output keeps the one that arrived first
C9_TieKeepsFirst ==
    filterDone =>
        \A i \in DOMAIN latestEpisodes :
            LET id == latestEpisodes[i].media.idMal
            IN  /\ SurvivorsOf(id) # {}
                /\ \A j \in SurvivorsOf(id) :
                      schedules[j].episode = MaxEpisodeOf(id) =>
                         latestEpisodes[i].scheduleId <= j

\* two surviving entries of one series with equal episode numbers arrived
\* and the first is the one kept
C9_Witness ==
    /\ filterDone
    /\ Len(schedules) >= 2
    /\ Surviving(schedules[1])
    /\ Surviving(schedules[2])
    /\ schedules[1].media.idMal = schedules[2].media.idMal
    /\ schedules[1].episode = schedules[2].episode
    /\ Len(latestEpisodes) = 1
    /\ latestEpisodes[1].scheduleId = 1

(***************************************************************************)
(* ContentPolicy properties                                                *)
(***************************************************************************)
Admits == ~adultCheck.blocked /\ animeCheck # NoCheck /\ animeCheck.allowed

\* C10: isAdultContent followed by isAnime admits a series if and only if
\* all six predicates pass
C10_AdmitIffAllSixPass ==
    policyDone => (Admits <=> AllSixPass(media))

\* a series without country of origin that passes the other five
\* predicates has been admitted
C10_Witness ==
    /\ policyDone
    /\ media.countryOfOrigin = ""
    /\ media.tags # <<>>
    /\ media.genres # <<>>
    /\ Admits

\* the six predicates in their fixed order, and the reason each reports
Passes(m, n) ==
    CASE n = 1 -> AdultFlagPasses(m)
      [] n = 2 -> GenresPass(m)
      [] n = 3 -> TagsPass(m)
      [] n = 4 -> TypePasses(m)
      [] n = 5 -> FormatPasses(m)
      [] n = 6 -> CountryPasses(m)

ReasonOf(n) ==
    <<"isAdult flag", "Blocked genre", "Blocked tag",
      "Not anime type", "Blocked format", "Blocked country">>[n]

FirstFailing(m) ==
    IF \A n \in 1..6 : Passes(m, n) THEN 0
    ELSE CHOOSE n \in 1..6 : ~Passes(m, n) /\ \A k \in 1..(n - 1) : Passes(m, k)

\* what filterLatestEpisodes logs as the reason of the skip
Reported ==
    IF adultCheck.blocked THEN adultCheck.reason
    ELSE IF animeCheck # NoCheck /\ ~animeCheck.allowed THEN animeCheck.reason
    ELSE <<>>

\* the value the reason names: the first blocked genre or tag of the list,
\* the type, the format, the country
Offending(m, n) ==
    CASE n = 1 -> <<>>
      [] n = 2 -> <<m.genres[CHOOSE i \in DOMAIN m.genres :
                       /\ m.genres[i] \in BLOCKED_GENRES
                       /\ \A j \in 1..(i - 1) : m.genres[j] \notin BLOCKED_GENRES]>>
      [] n = 3 -> <<m.tags[CHOOSE i \in DOMAIN m.tags :
                       /\ m.tags[i] \in BLOCKED_TAGS
                       /\ \A j \in 1..(i - 1) : m.tags[j] \notin BLOCKED_TAGS]>>
      [] n = 4 -> <<m.type>>
      [] n = 5 -> <<m.format>>
      [] n = 6 -> <<m.countryOfOrigin>>

\* C13: a rejected series is reported with the reason of the first failing
\* predicate in the order adult flag, blocked genre, blocked tag, type,
\* format, country; the series is rejected exactly when some predicate
\* fails, whichever it is
C13_ReasonOfFirstFailingPredicate ==
    policyDone =>
        /\ ~Admits <=> (\E n \in 1..6 : ~Passes(media, n))
        /\ FirstFailing(media) # 0 =>
              Reported = <<ReasonOf(FirstFailing(media))>>
                            \o Offending(media, FirstFailing(media))
        /\ FirstFailing(media) = 0 => Reported = <<>>

\* a series failing the genre, the tag and the format predicate has been
\* rejected for its genre
C13_Witness ==
    /\ policyDone
    /\ AdultFlagPasses(media)
    /\ ~GenresPass(media)
    /\ ~TagsPass(media)
    /\ ~FormatPasses(media)
    /\ Reported[1] = "Blocked genre"

(***************************************************************************)
(* PaginatedFetcher and pipeline properties                                *)
(***************************************************************************)
RECURSIVE Flat(_)
Flat(pages) == IF pages = <<>> THEN <<>> ELSE Head(pages).schedules \o Flat(Tail(pages))

\* C11: no entry whose series carries the adult flag, a blocked genre or a
\* blocked tag is in the output of the filter, queued for a write or
\* written to the collection
C11_AdultNeverQueuedNorCommitted ==
    \A p \in DOMAIN upstream : \A i \in DOMAIN upstream[p].schedules :
        LET e == upstream[p].schedules[i]
        IN  ~(AdultFlagPasses(e.media) /\ GenresPass(e.media) /\ TagsPass(e.media)) =>
               /\ \A j \in DOMAIN latestEpisodes :
                     latestEpisodes[j].media.idMal # e.media.idMal
               /\ e.media.idMal \notin BatchKeys(batch)
               /\ e.media.idMal \notin DOMAIN store

\* an entry with a blocked tag was fetched next to an entry of an admitted
\* series, and the run has committed its writes
C11_Witness ==
    /\ mpc = "update"
    /\ pc = "idle"
    /\ runStatus.commit = "ok"
    /\ \E k \in DOMAIN store : store[k].lastUpdated >= StartTime
    /\ \E i \in DOMAIN schedules :
          /\ AdultFlagPasses(schedules[i].media)
          /\ GenresPass(schedules[i].media)
          /\ ~TagsPass(schedules[i].media)

\* the last entry of page q precedes the cutoff of the fetcher
OldestPrecedesCutoff(q) ==
    /\ PageOf(q).schedules # <<>>
    /\ PageOf(q).schedules[Len(PageOf(q).schedules)].airingAt * 1000 < fetchNow - WindowMs

\* C14: a page is requested only if every page before it was fetched with
\* hasNextPage true and with its last entry not preceding the cutoff
C14_NoRequestAfterStop ==
    fpc # "idle" =>
        \A q \in 1..(currentPage - 1) :
            PageOf(q).hasNextPage /\ ~OldestPrecedesCutoff(q)

\* the fetcher has returned after a page whose last entry precedes the
\* cutoff, although that page said hasNextPage and upstream holds another
C14_Witness ==
    /\ fpc = "returned"
    /\ pageResult = "ok"
    /\ OldestPrecedesCutoff(currentPage)
    /\ PageOf(currentPage).hasNextPage
    /\ currentPage < Len(upstream)

\* C15: when upstream is sorted by airing time descending and no page
\* failed for good, the output of the filter on the fetched entries is its
\* output on the entries of all pages
C15_EarlyExitPreservesOutput ==
    (filterDone /\ pageResult = "ok" /\ TimeDesc(Flat(upstream))) =>
        latestEpisodes = filterLatestEpisodes(Flat(upstream), filterNow)

\* the fetcher stopped early, leaving entries unfetched, and the filter
\* kept an entry
C15_Witness ==
    /\ filterDone
    /\ pageResult = "ok"
    /\ TimeDesc(Flat(upstream))
    /\ Len(schedules) < Len(Flat(upstream))
    /\ latestEpisodes # <<>>

\* C16 as stated: a page whose every attempt fails is retried MAX_RETRIES
\* times after its first attempt before fetchPage returns null; a page that
\* succeeds is returned at that attempt
C16_RetriedMaxRetriesTimes ==
    /\ pageResult = "null" => attempts = MAX_RETRIES + 1
    /\ pageResult = "ok" => attempts = retries + 1

\* C16 amended: a page whose every attempt fails is attempted MAX_RETRIES
\* times in all (MAX_RETRIES - 1 retries after the first attempt) before
\* fetchPage returns null; a page that succeeds is returned at that
\* attempt, which is at most the MAX_RETRIES-th
C16_AttemptedMaxRetriesTimes ==
    /\ pageResult = "null" => (attempts = MAX_RETRIES /\ retries = MAX_RETRIES)
    /\ pageResult = "ok" => (attempts = retries + 1 /\ attempts <= MAX_RETRIES)

\* the second page failed at every attempt and fetchPage gave up; a page
\* before it had succeeded
C16_Witness ==
    /\ pageResult = "null"
    /\ fpc = "returned"
    /\ currentPage = 2

\* C17: when a page exhausts its retries the fetcher returns the entries of
\* the pages before it; a non-empty partial result is what main filters,
\* main does not exit at the fetch step, and what is queued comes from the
\* filtered partial result
C17_PartialResultIsUsed ==
    (fpc = "returned" /\ pageResult = "null") =>
        /\ allSchedules = Flat(SubSeq(upstream, 1, currentPage - 1))
        /\ (mpc # "fetch" /\ allSchedules # <<>>) =>
              /\ schedules = allSchedules
              /\ ~(mpc = "exited" /\ ~filterDone)
              /\ filterDone =>
                    latestEpisodes = filterLatestEpisodes(allSchedules, filterNow)
              /\ \A i \in DOMAIN batch :
                    \E j \in DOMAIN latestEpisodes :
                        /\ latestEpisodes[j].media.idMal = batch[i].key
                        /\ latestEpisodes[j].episode = batch[i].episode

\* the second page failed for good and the run has committed the entry of
\* the first page
C17_Witness ==
    /\ fpc = "returned"
    /\ pageResult = "null"
    /\ allSchedules # <<>>
    /\ mpc = "update"
    /\ pc = "idle"
    /\ runStatus.commit = "ok"
    /\ \E k \in DOMAIN store : store[k].lastUpdated >= StartTime

(***************************************************************************)
(* RetentionSweeper properties                                             *)
(***************************************************************************)
\* the sweep kept document k: shouldKeepAnime answered true and the document
\* is still in the collection
Kept(k) == decisions[k].keep /\ k \in DOMAIN store
\* the sweep ran to its end and deleted document k
Swept(k) == sweepPc = "done" /\ sweepExit = 0 /\ k \notin DOMAIN store
\* a date signal of document k, at the clock shouldKeepAnime read for it
SignalOf(k, f, days) == DateWithin(snapshot[k], f, decisions[k].at, days)
\* the status the engines store for a series that is releasing
CurrentlyReleasing(k) ==
    HasField(snapshot[k], "status") /\ snapshot[k].status = "Currently Airing"
NoDateSignal(k) ==
    /\ ~SignalOf(k, "episodeAiredDate", RECENCY_WINDOW_DAYS)
    /\ ~SignalOf(k, "episodeAddedAt", RECENCY_WINDOW_DAYS)
    /\ ~SignalOf(k, "airedDate", NewSeriesDays)
    /\ ~SignalOf(k, "lastUpdated", RecentUpdateDays)

\* C18 as stated: the sweep never deletes a record whose status is
\* currently releasing, whatever its other fields, its id being on the
\* denylist included.  Violated by cleanup script v2, which tests the
\* denylist first.
C18_ReleasingNeverDeleted ==
    \A k \in DOMAIN snapshot : CurrentlyReleasing(k) => Kept(k)

\* C18, amended: the sweep never deletes a record whose status is
\* 'Currently Airing' and whose id is not on the denylist of the running
\* script, whatever its dates
C18_ReleasingOffDenylistNeverDeleted ==
    \A k \in DOMAIN snapshot :
        CurrentlyReleasing(k) /\ k \notin Denylist(sweepVer) => Kept(k)

\* a completed sweep that deleted something and kept a releasing record with
\* every date stale
C18_Witness ==
    /\ sweepPc = "done"
    /\ sweepExit = 0
    /\ DOMAIN store # DOMAIN snapshot
    /\ \E k \in DOMAIN snapshot :
          /\ CurrentlyReleasing(k)
          /\ DOMAIN snapshot[k] = {"status", "episodeAiredDate", "episodeAddedAt",
                                   "airedDate", "lastUpdated"}
          /\ NoDateSignal(k)
          /\ Kept(k)

\* C19: a record whose id is on the denylist is always marked for deletion,
\* whatever its status and its dates, and is gone once the sweep has
\* committed
C19_DenylistedAlwaysDeleted ==
    \A k \in DOMAIN snapshot :
        k \in Denylist(sweepVer) =>
            /\ ~decisions[k].keep
            /\ (sweepPc = "done" /\ sweepExit = 0 => k \notin DOMAIN store)

\* a denylisted record that is releasing and has every date inside its
\* window was deleted
C19_Witness ==
    \E k \in DOMAIN snapshot :
        /\ k \in Denylist(sweepVer)
        /\ CurrentlyReleasing(k)
        /\ SignalOf(k, "episodeAiredDate", RECENCY_WINDOW_DAYS)
        /\ SignalOf(k, "episodeAddedAt", RECENCY_WINDOW_DAYS)
        /\ SignalOf(k, "airedDate", RECENCY_WINDOW_DAYS)
        /\ SignalOf(k, "lastUpdated", RecentUpdateDays)
        /\ Swept(k)

\* C20 as stated: a record off the denylist is kept whenever one of the five
\* signals holds (status releasing, episode aired within RECENCY_DAYS, series
\* started within 30 days, added within RECENCY_DAYS, refreshed within 2
\* days), the refresh signal whatever the status.  Violated by v2 on a
\* finished record refreshed within 2 days, and by v1 on a series started
\* between 7 and 30 days ago.
C20_KeptOnAnySignal ==
    \A k \in DOMAIN snapshot :
        /\ k \notin Denylist(sweepVer)
        /\ \/ CurrentlyReleasing(k)
           \/ SignalOf(k, "episodeAiredDate", RECENCY_DAYS)
           \/ SignalOf(k, "airedDate", NewSeriesDays)
           \/ SignalOf(k, "episodeAddedAt", RECENCY_DAYS)
           \/ SignalOf(k, "lastUpdated", RecentUpdateDays)
        => Kept(k)

\* the window of the series start date and the statuses that switch the
\* refresh signal off, per script
StartWindow(v) == IF v = "v2" THEN NewSeriesDays ELSE RECENCY_WINDOW_DAYS
RefreshCounts(v, k) ==
    v = "v2" => ~(HasField(snapshot[k], "status") /\ snapshot[k].status = "Finished Airing")

\* C20, amended: a record off the denylist is kept whenever its status is
\* 'Currently Airing', its episode aired or was added within RECENCY_DAYS,
\* its series started within 30 days (v2) or RECENCY_DAYS (v1), or it was
\* refreshed within 2 days and, under v2, its status is not 'Finished Airing'
C20_KeptOnAnySignalOfTheScript ==
    \A k \in DOMAIN snapshot :
        /\ k \notin Denylist(sweepVer)
        /\ \/ CurrentlyReleasing(k)
           \/ SignalOf(k, "episodeAiredDate", RECENCY_DAYS)
           \/ SignalOf(k, "airedDate", StartWindow(sweepVer))
           \/ SignalOf(k, "episodeAddedAt", RECENCY_DAYS)
           \/ SignalOf(k, "lastUpdated", RecentUpdateDays) /\ RefreshCounts(sweepVer, k)
        => Kept(k)

\* a completed v2 sweep that deleted something and kept a record whose only
\* signal is a series start between 7 and 30 days ago
C20_Witness ==
    /\ sweepVer = "v2"
    /\ sweepPc = "done"
    /\ sweepExit = 0
    /\ DOMAIN store # DOMAIN snapshot
    /\ \E k \in DOMAIN snapshot :
          /\ k \notin Denylist(sweepVer)
          /\ HasField(snapshot[k], "status")
          /\ snapshot[k].status = "Finished Airing"
          /\ SignalOf(k, "airedDate", NewSeriesDays)
          /\ ~SignalOf(k, "airedDate", RECENCY_WINDOW_DAYS)
          /\ ~SignalOf(k, "episodeAiredDate", RECENCY_DAYS)
          /\ ~SignalOf(k, "episodeAddedAt", RECENCY_DAYS)
          /\ ~SignalOf(k, "lastUpdated", RecentUpdateDays)
          /\ Kept(k)

\* the status test of the running script: 'currently airing', and for the
\* first script 'airing' as well
StatusKeeps(v, k) ==
    \/ StatusOf(snapshot[k]) = "currently airing"
    \/ v = "v1" /\ StatusOf(snapshot[k]) = "airing"

\* C21: a record with none of the five keep signals is marked for deletion,
\* and a sweep that ran to its end has deleted exactly the records for which
\* shouldKeepAnime is false
C21_DeletedIffNoKeepDecision ==
    /\ \A k \in DOMAIN snapshot :
          ~StatusKeeps(sweepVer, k) /\ NoDateSignal(k) =>
              /\ ~decisions[k].keep
              /\ (sweepPc = "done" /\ sweepExit = 0 => k \notin DOMAIN store)
    /\ sweepPc = "done" /\ sweepExit = 0 =>
          DOMAIN snapshot \ DOMAIN store =
              {k \in DOMAIN snapshot :
                  ~KeepDecision(sweepVer, snapshot[k], k, decisions[k].at)}

\* a completed sweep that deleted a finished record with every date stale
\* and kept another record
C21_Witness ==
    /\ sweepPc = "done"
    /\ sweepExit = 0
    /\ \E k \in DOMAIN snapshot :
          /\ k \notin OLD_ANIME_IDS
          /\ snapshot[k] = StaleDoc("Finished Airing", TwoDaysAgo - 1)
          /\ k \notin DOMAIN store
    /\ DOMAIN store # {}

\* C22: a record the reconciler created and never wrote again is deleted by
\* a sweep that runs to its end once every date of the record is outside its
\* window.  Violated: the record carries the status 'Currently Airing' the
\* converter writes, which keeps it in every sweep.
C22_StaleRecordIsSwept ==
    sweepPc = "done" /\ sweepExit = 0 =>
        \A k \in DOMAIN snapshot : NoDateSignal(k) => k \notin DOMAIN store

(***************************************************************************)
(* Run state machine of main                                               *)
(***************************************************************************)
\* the state of the run, read off the position of main and what it called
RunState ==
    IF mpc = "exited" THEN (IF exitCode = 0 THEN "DONE" ELSE "FAILED")
    ELSE IF mpc = "filter" THEN "FILTERING"
    ELSE IF mpc = "update"
    THEN (IF pc = "loop" THEN "RECONCILING"
          ELSE IF runStatus.exit = 0 THEN "DONE" ELSE "FAILED")
    ELSE IF fpc = "idle" THEN "IDLE" ELSE "FETCHING"

\* the step enters FAILED
Fails == RunState # "FAILED" /\ RunState' = "FAILED"

AniListZeroEntries ==
    ver # "jikanFixed" /\ runStatus.by # "jikanFixed" /\ fpc = "returned"
        /\ mpc # "fetch" /\ allSchedules = <<>>
JikanZeroEntries == ver = "jikanFixed" /\ episodesList = <<>>

\* updateFirestore was never entered: no document was read, nothing was
\* queued and nothing was committed
StoreUntouched ==
    /\ pc = "idle"
    /\ handled = {}
    /\ batch = <<>>
    /\ cnt = ZeroCnt
    /\ runStatus = NoRun

IterStep == pc = "loop" /\ pc' = "loop" /\ handled' # handled
\* the records of the run
RunList == IF ver = "anilist" THEN latestEpisodes ELSE episodesList
\* batch.commit() is called
Commits == pc = "loop" /\ pc' = "idle"
Errors(c) == c.errorCount
Skips(c) == c.skippedOldCount

EndedRunIds ==
    IF runStatus.by = "anilist"
    THEN {latestEpisodes[i].media.idMal : i \in DOMAIN latestEpisodes}
    ELSE {episodesList[i].key : i \in DOMAIN episodesList}

C26_CommitFailureFailsTheRun ==
    runStatus.commit = "failed" => Exited /\ ExitCode # 0

(***************************************************************************)
(* PaginatedFetcher: what is returned, and the waits                       *)
(***************************************************************************)
\* the requests of the log, and the pages k the fetcher holds a response of
Posts == SelectSeq(fetchLog, LAMBDA e : e.op = "post")
FetchedPages == IF pageResult = "null" THEN currentPage - 1 ELSE currentPage

\* C27: fetchRecentlyAiredEpisodes returns the entries of the pages 1..k it
\* fetched, in page order and in upstream order within a page, the page that
\* triggered the early stop included; the pages are requested with
\* consecutive numbers from 1 on, up to the page at which pagination stopped
C27_ReturnsPagesInOrder ==
    fpc = "returned" =>
        /\ allSchedules = Flat([q \in 1..FetchedPages |-> PageOf(q)])
        /\ Posts # <<>>
        /\ Posts[1].page = 1
        /\ Posts[Len(Posts)].page = currentPage
        /\ \A i \in 1..(Len(Posts) - 1) :
              Posts[i + 1].page \in {Posts[i].page, Posts[i].page + 1}

\* the fetcher returned after the early stop on page 2, whose entries differ
\* from those of page 1, and both pages are in what it returned
C27_Witness ==
    /\ fpc = "returned"
    /\ pageResult = "ok"
    /\ currentPage = 2
    /\ OldestPrecedesCutoff(2)
    /\ PageOf(2).hasNextPage
    /\ Len(PageOf(1).schedules) = 2
    /\ PageOf(1).schedules # PageOf(2).schedules
    /\ Len(allSchedules) > 2

\* the page of the request before event i of the log, the page of the request
\* after it (the page the loop is about to request when i is the last event),
\* and the number of requests of page p before event i
PageBefore(i) == fetchLog[i - 1].page
PageAfter(i) == IF i < Len(fetchLog) THEN fetchLog[i + 1].page ELSE currentPage
FailedBefore(i, p) ==
    Cardinality({j \in 1..(i - 1) : fetchLog[j].op = "post" /\ fetchLog[j].page = p})
\* event i is a backoff wait of fetchPage: a wait between two requests of one page
IsBackoff(i) ==
    /\ fetchLog[i].op = "delay"
    /\ PageAfter(i) = PageBefore(i)

\* C28: the wait before the k-th retry of a page is k * RETRY_DELAY, and no
\* wait follows the last failed attempt of a page that exhausted its retries
C28_BackoffIsLinear ==
    /\ \A i \in DOMAIN fetchLog :
          IsBackoff(i) =>
              fetchLog[i].ms = FailedBefore(i, PageBefore(i)) * RETRY_DELAY
    /\ pageResult = "null" =>
          /\ fetchLog[Len(fetchLog)] = Post(currentPage)
          /\ Cardinality({i \in DOMAIN fetchLog :
                            IsBackoff(i) /\ PageBefore(i) = currentPage})
                = MAX_RETRIES - 1

\* page 2 failed at every attempt after page 1 had needed one retry: the
\* waits of 1 and of 2 retry delays were taken for page 2, then fetchPage
\* returned null
C28_Witness ==
    /\ fpc = "returned"
    /\ pageResult = "null"
    /\ currentPage = 2
    /\ Len(fetchLog) = 9
    /\ fetchLog[2] = Delay(RETRY_DELAY)
    /\ fetchLog[6] = Delay(RETRY_DELAY)
    /\ fetchLog[8] = Delay(2 * RETRY_DELAY)

\* events i < j of the log are two consecutive requests
ConsecutivePosts(i, j) ==
    /\ i < j
    /\ fetchLog[i].op = "post"
    /\ fetchLog[j].op = "post"
    /\ \A m \in (i + 1)..(j - 1) : fetchLog[m].op # "post"

\* C29: between two consecutive requests for different pages lies exactly one
\* wait, of RATE_LIMIT_DELAY, whatever backoff waits the pages needed; a wait
\* that is not a backoff wait is of RATE_LIMIT_DELAY; and no wait follows the
\* last request of the run
C29_OneDelayBetweenPages ==
    /\ \A i, j \in DOMAIN fetchLog :
          ConsecutivePosts(i, j) /\ fetchLog[i].page # fetchLog[j].page =>
              /\ j = i + 2
              /\ fetchLog[i + 1] = Delay(RATE_LIMIT_DELAY)
    /\ \A i \in DOMAIN fetchLog :
          fetchLog[i].op = "delay" /\ ~IsBackoff(i) =>
              fetchLog[i] = Delay(RATE_LIMIT_DELAY)
    /\ fpc = "returned" => fetchLog[Len(fetchLog)].op = "post"

\* pages 1 and 2 each needed one retry; between the successful request of
\* page 1 and the first request of page 2 lies the inter-page delay, and the
\* fetcher has returned after page 2
C29_Witness ==
    /\ fpc = "returned"
    /\ pageResult = "ok"
    /\ fetchLog = <<Post(1), Delay(RETRY_DELAY), Post(1), Delay(RATE_LIMIT_DELAY),
                    Post(2), Delay(RETRY_DELAY), Post(2)>>

\* C30: every run of the fetcher terminates.  fetchPage makes at most
\* MAX_RETRIES attempts per page, the pagination loop requests no page past
\* the one after the last page of upstream, and fetchRecentlyAiredEpisodes
\* eventually returns, also when pages are empty or requests fail
C30_FetcherTerminates ==
    /\ [](attempts <= MAX_RETRIES /\ currentPage <= Len(upstream) + 1)
    /\ <>(fpc = "returned")

\* the fetcher returned after an empty first page that announced a next
\* page, and a second page that failed at every attempt
C30_Witness ==
    /\ fpc = "returned"
    /\ PageOf(1).schedules = <<>>
    /\ PageOf(1).hasNextPage
    /\ currentPage = 2
    /\ pageResult = "null"
    /\ attempts = MAX_RETRIES

(***************************************************************************)
(* Reconciler: frame, monotonicity, completeness of the records, counters  *)
(***************************************************************************)
\* the queued write of key k was decided on the record of k alone: on the
\* snapshot of k that is in the collection, by the comparison of the incoming
\* episode with that snapshot's latestEpisode
DecidedOnOwnRecord(op) ==
    /\ op.prev = Snapshot(op.key)
    /\ op.existed = (op.key \in DOMAIN store)
    /\ op.kind = "new" <=> IsCreate(op)
    /\ op.kind = "episode" <=> IsAdvance(op)
    /\ op.kind \in {"refresh", "backfill"} <=> IsRefresh(op)

\* the record of the key of op after the commit: the fields of the write, and
\* on ADVANCE and REFRESH every other field of the prior record as it was
WrittenWithMerge(op, before, after) ==
    /\ \A f \in DOMAIN op.data : f \in DOMAIN after /\ after[f] = op.data[f]
    /\ IsAdvance(op) \/ IsRefresh(op) =>
          \A f \in DOMAIN before \ DOMAIN op.data :
              f \in DOMAIN after /\ after[f] = before[f]

\* C31: a commit changes only the records of the keys it holds a write for;
\* the write of key k was decided on the prior record of k alone; and on
\* ADVANCE and REFRESH the fields of the prior record that the write does not
\* include are left as they were
C31_WriteTouchesOwnRecordOnly ==
    [][store' # store =>
          /\ \A k \in DOMAIN store \ BatchKeys(batch) :
                k \in DOMAIN store' /\ store'[k] = store[k]
          /\ DOMAIN store' = DOMAIN store \cup BatchKeys(batch)
          /\ \A i \in DOMAIN batch :
                /\ DecidedOnOwnRecord(batch[i])
                /\ WrittenWithMerge(batch[i], Snapshot(batch[i].key),
                                    store'[batch[i].key])]_vars

\* fetch.js advanced series 1 over the record the AniList engine had left and
\* created series 2: the record of series 1 keeps dataSource, which the write
\* did not include, next to airedDate, which it did
C31_Witness ==
    /\ runStatus.commit = "ok"
    /\ runStatus.by = "jikanFixed"
    /\ runStatus.did = {"create", "advance"}
    /\ DOMAIN store = {1, 2}
    /\ HasField(store[1], "dataSource")
    /\ HasField(store[1], "airedDate")
    /\ ~HasField(store[2], "dataSource")

\* C32: across the runs, the stored latestEpisode of a key never decreases.
\* Violated by the refresh branch of both engines, which writes the incoming
\* episode number also when it is lower than the stored one.
C32_LatestEpisodeNeverDecreases ==
    [][\A k \in DOMAIN store \cap DOMAIN store' :
          FieldOr(store'[k], "latestEpisode", 0) >= FieldOr(store[k], "latestEpisode", 0)]_vars

\* the record of key k carries episodeAddedAt
Stamped(k) == HasField(store[k], "episodeAddedAt") /\ store[k].episodeAddedAt # 0

\* C33: under any interleaving of ingestion runs and sweeps, every record in
\* the collection has episodeAddedAt set.  Violated by fetch.js when a sweep
\* deletes the record between the read and the commit of a refresh, and by
\* the first Jikan revision, which creates records without the field.
C33_EveryRecordHasAddedAt ==
    \A k \in DOMAIN store : Stamped(k)

\* C34: every record the AniList Reconciler writes has episodeAddedAt <=
\* lastUpdated.  Violated on CREATE and ADVANCE when the
\* clock advances between the two readings of convertToFirestoreFormat,
\* lastUpdated being the first and episodeAddedAt the second.
C34_AddedAtNotAfterLastUpdated ==
    [][(ver = "anilist" /\ store' # store) =>
          \A k \in BatchKeys(batch) :
              store'[k].episodeAddedAt <= store'[k].lastUpdated]_vars

\* C35: in updateFirestore of the AniList engine the counters partition the
\* entries gone through: newCount + updatedEpisodeCount + refreshCount =
\* updateCount = number of queued writes, and updateCount + errorCount =
\* number of entries handled, which at the end of the loop is the number of
\* entries handed to updateFirestore
C35_CountersPartitionTheInput ==
    (mpc = "update" /\ ver = "anilist" /\ pc = "loop") =>
        /\ cnt.newCount + cnt.updatedEpisodeCount + cnt.refreshCount = cnt.updateCount
        /\ cnt.updateCount = Len(batch)
        /\ cnt.updateCount + cnt.errorCount = Cardinality(handled)
        /\ AllHandled => cnt.updateCount + cnt.errorCount = Len(latestEpisodes)

\* the loop has gone through two entries: one failed, the other refreshed the
\* record of an earlier run
C35_Witness ==
    /\ mpc = "update"
    /\ ver = "anilist"
    /\ pc = "loop"
    /\ AllHandled
    /\ Len(latestEpisodes) = 2
    /\ cnt.errorCount = 1
    /\ cnt.refreshCount = 1

(***************************************************************************)
(* PaginatedFetcher: responses that carry errors or lack the Page data     *)
(***************************************************************************)
\* the body upstream answers a request of page q with
BodyOf(q) == IF q \in DOMAIN upstream THEN upstream[q] ELSE EmptyDoc
HasPageData(q) == HasField(BodyOf(q), "schedules") /\ HasField(BodyOf(q), "hasNextPage")
HasErrors(q) == HasField(BodyOf(q), "errors")
\* the requests of page q in the log, and its backoff waits
PostsOf(q) == {i \in DOMAIN fetchLog : fetchLog[i] = Post(q)}
BackoffsOf(q) == {i \in DOMAIN fetchLog : IsBackoff(i) /\ PageBefore(i) = q}
\* fetchPage has returned a response for page q
Answered(q) ==
    \/ q \in 1..(currentPage - 1)
    \/ q = currentPage /\ pageResult = "ok" /\ fpc \in {"gotPage", "returned"}

\* C36 as stated: a response that carries an errors field, or lacks the Page
\* data, ends the pagination: no page after it is requested.  Violated by a
\* response that carries errors next to Page data whose pageInfo says
\* hasNextPage.
C36_ErrorsEndPagination ==
    \A q \in 1..(currentPage - 1) : ~HasErrors(q) /\ HasPageData(q)

\* C36, amended: a response that arrived is never retried, with or without
\* an errors field; without Page data it yields no entries and ends the
\* pagination; with Page data its entries are taken and the pagination goes
\* on as its pageInfo says, an errors field next to it changing nothing
C36_ResponsesAreNotRetried ==
    /\ \A q \in 1..currentPage :
          Answered(q) => Cardinality(PostsOf(q)) = Cardinality(BackoffsOf(q)) + 1
    /\ \A q \in 1..(currentPage - 1) : HasPageData(q) /\ BodyOf(q).hasNextPage
    /\ fpc = "returned" =>
          /\ allSchedules =
                Flat([q \in 1..FetchedPages |->
                        [schedules |-> IF HasPageData(q) THEN BodyOf(q).schedules
                                       ELSE <<>>]])
          /\ (pageResult = "ok" /\ HasPageData(currentPage)) =>
                ~BodyOf(currentPage).hasNextPage

\* page 1 answered with errors next to Page data that announced a next page,
\* page 2 with errors alone: both were requested once, the entries of page 1
\* are what the fetcher returned
C36_Witness ==
    /\ fpc = "returned"
    /\ pageResult = "ok"
    /\ currentPage = 2
    /\ HasErrors(1) /\ HasPageData(1)
    /\ HasErrors(2) /\ ~HasPageData(2)
    /\ allSchedules # <<>>
    /\ fetchLog = <<Post(1), Delay(RATE_LIMIT_DELAY), Post(2)>>

(***************************************************************************)
(* main: a fetch whose entries the filter all rejects                      *)
(***************************************************************************)
\* C37: when the fetch returned at least one entry and filterLatestEpisodes
\* admitted none, main has exited with code 0 and updateFirestore was never
\* entered: no document was read, no write was queued, no batch was
\* committed, and the collection is as it was before the run
C37_NothingAdmittedExitsCleanly ==
    (filterDone /\ schedules # <<>> /\ latestEpisodes = <<>>) =>
        /\ mpc = "exited"
        /\ exitCode = 0
        /\ StoreUntouched
        /\ store \in PriorStores

\* two entries were fetched, the filter rejected both, and the collection
\* holds the record of an earlier run
C37_Witness ==
    /\ filterDone
    /\ Len(schedules) = 2
    /\ latestEpisodes = <<>>
    /\ mpc = "exited"
    /\ 1 \in DOMAIN store

\* C38: a sweep only deletes.  Once cleanupOldEpisodes has returned, the
\* collection is the one episodesRef.get() read without the documents whose
\* keep decision was false, every kept document field for field as it was;
\* the two counters add up to the number of documents scanned; and
\* batch.commit() is called only when something was queued for deletion.
C38_SweepOnlyDeletes ==
    /\ keepCount + deleteCount = Cardinality(DOMAIN snapshot)
    /\ (deleteCount = 0 => sweepCommits = 0)
    /\ (\A k \in DOMAIN snapshot : decisions[k].keep) => sweepCommits = 0
    /\ \A k \in DOMAIN snapshot :
          decisions[k].keep => k \in DOMAIN store /\ store[k] = snapshot[k]
    /\ (sweepPc = "done" /\ sweepExit = 0) =>
          store = [k \in {i \in DOMAIN snapshot : decisions[i].keep} |-> snapshot[k]]

C38_Witness ==
    /\ sweepPc = "done"
    /\ sweepExit = 0
    /\ sweepCommits = 1
    /\ keepCount >= 1
    /\ deleteCount >= 1
    /\ DOMAIN store # DOMAIN snapshot

\* the run that just ended read the file raw and wrote the file seenFile
SeenRewritten == seenPc = "done" /\ seenExit = 0

\* C39: cleanup_seen.js rewrites seen_episodes.json to exactly the entries
\* whose airing time is at or after now - 7 days, an entry exactly at the
\* cutoff included, each with the value it had: the result is a subset of
\* the input.  A second run at the same clock reading leaves the file as it
\* is.  With no file the script exits 0 and creates none.
C39_TrimKeepsExactlyTheRecent ==
    /\ [](SeenRewritten =>
            /\ seenFile # <<>>
            /\ DOMAIN seenFile[1] \subseteq DOMAIN raw
            /\ \A k \in DOMAIN raw :
                  /\ k \in DOMAIN seenFile[1] <=> raw[k] * 1000 >= cutoff
                  /\ k \in DOMAIN seenFile[1] => seenFile[1][k] = raw[k]
            /\ total = removed + Cardinality(DOMAIN seenFile[1]))
    /\ [](seenPc = "exited" => seenExit = 0 /\ seenFile = <<>>)
    /\ [][(SeenRewritten /\ now' = now) => seenFile' = seenFile]_vars
    /\ [][seenFile = <<>> => seenFile' = <<>>]_vars

\* a run has kept an entry exactly at its cutoff and removed an older one
C39_Witness ==
    /\ SeenRewritten
    /\ \E k \in DOMAIN seenFile[1] : seenFile[1][k] * 1000 = cutoff
    /\ removed >= 1
    /\ \E k \in DOMAIN raw : raw[k] * 1000 = cutoff - 1000

====
